---- MODULE Spec2Model ----
(***************************************************************************)
(* Verification model of armillary-mcp's incremental build engine:         *)
(*   - the Build Controller of src/src/watcher.ts (createBuildController)  *)
(*     driven by the watch-mode buildFn of watchAndRegenerate;             *)
(*   - the Diff Engine of src/src/cache.ts (computeDiff, loadCache) and    *)
(*     the Build Orchestrator of src/src/indexer.ts (generateDocIndex).    *)
(***************************************************************************)
EXTENDS Integers, Sequences, FiniteSets, TLC

(***************************************************************************)
(* Bounds of the controller model.                                         *)
(***************************************************************************)
\* the debounceMs argument of createBuildController, in clock ticks
debounceMs == 2
\* number of scheduleRebuild calls explored
MaxCalls == 4
\* number of waitForIdle calls explored
MaxWaiters == 2

\* debounceTimer === null
NoTimer == -1
\* watchAndRegenerate was not called
NoWatcher == [status |-> "none", pendingEvents |-> 0, outputDir |-> ".armillary-mcp-docs",
              callbacks |-> <<>>, rejected |-> FALSE]

VARIABLES
    \* ---- createBuildController closure (watcher.ts:27-29) ----
    state,          \* "idle" | "building" | "build_queued"
    debounceTimer,  \* NoTimer, or the ticks left before the timeout callback runs
    idleResolvers,  \* sequence of the waiters whose resolve function is queued
    \* ---- runBuild activations (watcher.ts:39-57) ----
    inFlight,       \* buildFn invocations whose promise has not settled
    awaiting,       \* runBuild activations resumed after `await buildFn()` but not yet run
    lastOutcome,    \* how the last settled buildFn ended: "none" | "ok" | "fail"
    \* ---- promises handed out by waitForIdle (watcher.ts:81-88) ----
    promise,        \* waiter -> "none" | "immediate" | "pending" | "resolved"
    resolveCalls,   \* waiter -> number of times its resolve function was called
    \* ---- watch-mode observers (watcher.ts:152-161) ----
    cb,             \* last callback: "none" | "start" | "complete" | "error"
    \* ---- observers of the run ----
    calls,          \* scheduleRebuild calls made so far
    pendingCall,    \* a scheduleRebuild call was made and no buildFn has started since
    sinceCall,      \* ticks since the last scheduleRebuild call (saturates at debounceMs)
    burst,          \* scheduleRebuild calls made in idle since the last timer-started build
    callsDuringBuild, \* scheduleRebuild calls since the current build started
    startedBy,      \* what started the last build: "none" | "timer" | "queue"
    served          \* scheduleRebuild calls the last build start answered

ctlVars == <<state, debounceTimer, idleResolvers, inFlight, awaiting, lastOutcome,
             promise, resolveCalls, cb, calls, pendingCall, sinceCall, burst,
             callsDuringBuild, startedBy, served>>

(***************************************************************************)
(* Bounds of the build model.                                              *)
(***************************************************************************)
\* file contents are 1..MaxContent
MaxContent == 2
\* modification times are 1..MaxMtime
MaxMtime == 2
\* external writes and removals explored
MaxEdits == 1
\* changes made to the project while it is watched
MaxChanges == 2
\* generateDocIndex runs explored
MaxBuilds == 2
\* the batchSize option takes the values 1..MaxBatch
MaxBatch == 2
\* options.batchSize ?? 50
DefaultBatchSize == 50
\* computeDiff is called with up to BATCH_CONCURRENCY + MaxExtra cached files
MaxExtra == 2

VARIABLES
    \* ---- the project on disk ----
    fs,             \* relative path -> NoFile | [content, mtimeMs]
    tsConfig,       \* content of the tsconfig file
    cacheFile,      \* <outputDir>/cache.json: NoFile | CacheManifest
    indexFile,      \* <outputDir>/index.json: NoFile | DocIndex
    plugins,        \* options.plugins, the registered plugins in order
    \* ---- the running generateDocIndex (indexer.ts:58-329) ----
    run,            \* its locals and its position
    \* ---- observers of the run ----
    prev,           \* the generateDocIndex run before the last one
    builds,         \* generateDocIndex runs started so far
    edits           \* external writes and removals so far

buildVars == <<fs, tsConfig, cacheFile, indexFile, plugins, run, prev, builds, edits>>

VARIABLES
    \* ---- a computeDiff call of its own (cache.ts:118-186) ----
    diffRun         \* its arguments, its locals and its position

VARIABLES
    \* ---- watchAndRegenerate (watcher.ts:123-190) ----
    watch           \* status: "none" when watchAndRegenerate was not called, else
                    \* the chokidar watcher is "open" | "closing" (close() awaits
                    \* watcher.close()) | "closed" (close() has called waitForIdle);
                    \* pendingEvents: the changes it saw and has not yet reported;
                    \* outputDir: the directory of options.outputPath;
                    \* callbacks: the observers buildFn has called since it was
                    \* last invoked; rejected: its promise is already rejected

vars == <<ctlVars, buildVars, diffRun, watch>>

Waiters == 1..MaxWaiters

Min(a, b) == IF a < b THEN a ELSE b

(***************************************************************************)
(* createBuildController                                                   *)
(***************************************************************************)
InitCtl ==
    /\ state = "idle"
    /\ debounceTimer = NoTimer
    /\ idleResolvers = <<>>
    /\ inFlight = 0
    /\ awaiting = 0
    /\ lastOutcome = "none"
    /\ promise = [w \in Waiters |-> "none"]
    /\ resolveCalls = [w \in Waiters |-> 0]
    /\ cb = "none"
    /\ calls = 0
    /\ pendingCall = FALSE
    /\ sinceCall = debounceMs
    /\ burst = 0
    /\ callsDuringBuild = 0
    /\ startedBy = "none"
    /\ served = 0

\* a scheduleRebuild that forgets the change arriving during a build
ScheduleState_Drop(s) == s

\* a scheduleRebuild that queues a build in whatever state it is called
ScheduleState_QueueAlways(s) == "build_queued"

\* scheduleRebuild, the state it leaves: building -> build_queued, else unchanged
ScheduleState(s) == IF s = "building" THEN "build_queued" ELSE s

\* a scheduleRebuild without the early returns: the timer is armed in every state
ScheduleTimer_Always(s, t) == debounceMs

\* a scheduleRebuild that leaves a pending timer running instead of restarting it
ScheduleTimer_NoReset(s, t) == IF s = "idle" /\ t = NoTimer THEN debounceMs ELSE t

\* scheduleRebuild, the timer it leaves: in idle the pending timer is cleared and a
\* new one is set for debounceMs; in building / build_queued the function returns early
ScheduleTimer(s, t) == IF s = "idle" THEN debounceMs ELSE t

\* a completion check that never looks at the queue
RebuildNow_Never(s) == FALSE

\* the completion check of runBuild: TRUE when another build is started at once
RebuildNow(s) == s = "build_queued"

\* resolveIdleWaiters: every queued resolve function is called once, the queue is emptied
ResolveIdleWaiters ==
    /\ idleResolvers' = <<>>
    /\ resolveCalls' = [w \in Waiters |->
          resolveCalls[w] + Cardinality({i \in 1..Len(idleResolvers) : idleResolvers[i] = w})]
    /\ promise' = [w \in Waiters |->
          IF \E i \in 1..Len(idleResolvers) : idleResolvers[i] = w
          THEN "resolved" ELSE promise[w]]

\* runBuild up to its await: state = "building", buildFn is invoked, and the
\* watch-mode buildFn calls onBuildStart before it does anything else
RunBuildStart(by, n) ==
    /\ state' = "building"
    /\ inFlight' = inFlight + 1
    /\ cb' = "start"
    /\ pendingCall' = FALSE
    /\ callsDuringBuild' = 0
    /\ startedBy' = by
    /\ served' = n

\* a runBuild without the try/catch: a rejection ends the activation
Swallowed_OnlyOk(outcome) == outcome = "ok"

\* the try/catch around `await buildFn()`: the activation of runBuild goes on to
\* its completion check whether the promise was fulfilled or rejected
Swallowed(outcome) == outcome \in {"ok", "fail"}

ScheduleRebuild ==
    /\ calls < MaxCalls
    /\ calls' = calls + 1
    /\ state' = ScheduleState(state)
    /\ debounceTimer' = ScheduleTimer(state, debounceTimer)
    /\ pendingCall' = TRUE
    /\ sinceCall' = 0
    /\ callsDuringBuild' = IF state = "idle" THEN callsDuringBuild ELSE callsDuringBuild + 1
    /\ burst' = IF state = "idle" THEN burst + 1 ELSE burst
    /\ UNCHANGED <<idleResolvers, inFlight, awaiting, lastOutcome, promise, resolveCalls, cb,
                   startedBy, served>>

\* the setTimeout callback: debounceTimer = null; void runBuild()
TimerFire ==
    /\ debounceTimer = 0
    /\ debounceTimer' = NoTimer
    /\ RunBuildStart("timer", burst)
    /\ burst' = 0
    /\ UNCHANGED <<idleResolvers, awaiting, lastOutcome, promise, resolveCalls, calls, sinceCall>>

\* the promise of buildFn settles and the activation of runBuild that awaits it is
\* resumed
PromiseSettles(outcome) ==
    /\ inFlight > 0
    /\ inFlight' = inFlight - 1
    /\ awaiting' = IF Swallowed(outcome) THEN awaiting + 1 ELSE awaiting
    /\ lastOutcome' = outcome
    /\ UNCHANGED <<state, debounceTimer, idleResolvers, promise, resolveCalls, calls,
                   pendingCall, sinceCall, burst, callsDuringBuild, startedBy, served>>

\* the promise of buildFn settles; the watch-mode buildFn has called
\* onBuildComplete, or onBuildError before re-throwing
BuildSettle(outcome) ==
    /\ PromiseSettles(outcome)
    /\ cb' = IF outcome = "ok" THEN "complete" ELSE "error"

\* runBuild after its await (the rejection was caught): the completion check
BuildContinue ==
    /\ awaiting > 0
    /\ awaiting' = awaiting - 1
    /\ IF RebuildNow(state)
       THEN /\ RunBuildStart("queue", callsDuringBuild)
            /\ UNCHANGED <<idleResolvers, promise, resolveCalls>>
       ELSE /\ state' = "idle"
            /\ ResolveIdleWaiters
            /\ UNCHANGED <<inFlight, cb, pendingCall, callsDuringBuild, startedBy, served>>
    /\ UNCHANGED <<debounceTimer, lastOutcome, calls, sinceCall, burst>>

\* a waitForIdle that overlooks the pending debounce timer
IdleNow_IgnoreTimer(s, t) == s = "idle"

\* the test of waitForIdle: idle and no debounce timer pending
IdleNow(s, t) == s = "idle" /\ t = NoTimer

\* waitForIdle, made by the next unused waiter
WaitForIdle(w) ==
    /\ promise[w] = "none"
    /\ \A v \in Waiters : v < w => promise[v] # "none"
    /\ IF IdleNow(state, debounceTimer)
       THEN /\ promise' = [promise EXCEPT ![w] = "immediate"]
            /\ UNCHANGED idleResolvers
       ELSE /\ promise' = [promise EXCEPT ![w] = "pending"]
            /\ idleResolvers' = Append(idleResolvers, w)
    /\ UNCHANGED <<state, debounceTimer, inFlight, awaiting, lastOutcome, resolveCalls, cb,
                   calls, pendingCall, sinceCall, burst, callsDuringBuild, startedBy, served>>

\* one clock tick passes
Tick ==
    /\ debounceTimer > 0 \/ sinceCall < debounceMs
    /\ debounceTimer' = IF debounceTimer > 0 THEN debounceTimer - 1 ELSE debounceTimer
    /\ sinceCall' = Min(debounceMs, sinceCall + 1)
    /\ UNCHANGED <<state, idleResolvers, inFlight, awaiting, lastOutcome, promise,
                   resolveCalls, cb, calls, pendingCall, burst, callsDuringBuild, startedBy, served>>

(***************************************************************************)
(* Files, hashes, symbols                                                  *)
(***************************************************************************)
\* a path that does not exist (ENOENT)
NoFile == [enoent |-> TRUE]
\* loadCache returned null
NoCache == [null |-> TRUE]
\* a rejected promise
Throws == [throws |-> TRUE]
\* FileEntry.mtimeMs absent (a cache written before the field existed), Map.get miss
NoMtime == 0
\* Map.get miss of DiffResult.hashes
NoHash == <<>>
\* SymbolDoc.id / filePath not set by a plugin; plugin.extract returned null
NoId == <<>>
NoPath == <<>>
NoCode == <<>>

\* cache.ts:155
BATCH_CONCURRENCY == 32
\* cache.ts:6 and indexer.ts:68
CACHE_VERSION == "1"
indexVersion == "1.0.0"

ProjectRoot == "/proj"
\* relative posix paths: 1 and 2 are .ts files listed by the tsconfig, 3 is a .vue file
NativePaths == {1, 2}
PluginPaths == {3}
AllPaths == NativePaths \cup PluginPaths
\* the other files a project tree can hold, numbered like the rest in the order of
\* their path strings; the file of the output directory, whose path begins with ".",
\* comes before all
OutputDirPath == -1
\* where each path lies, the extension path.extname gives for it, and whether its
\* name ends in .d.ts
PathInfo ==
    [rel \in {OutputDirPath} \cup 1..8 |->
        CASE rel = OutputDirPath -> [under |-> ".armillary-mcp-docs", ext |-> ".vue", dts |-> FALSE]
          [] rel = 1 -> [under |-> "src", ext |-> ".ts", dts |-> FALSE]
          [] rel = 2 -> [under |-> "src", ext |-> ".ts", dts |-> FALSE]
          [] rel = 3 -> [under |-> "src", ext |-> ".vue", dts |-> FALSE]
          [] rel = 4 -> [under |-> "src", ext |-> ".TSX", dts |-> FALSE]
          [] rel = 5 -> [under |-> "src", ext |-> ".vue", dts |-> FALSE]
          [] rel = 6 -> [under |-> "src", ext |-> ".ts", dts |-> TRUE]
          [] rel = 7 -> [under |-> "node_modules", ext |-> ".vue", dts |-> FALSE]
          [] rel = 8 -> [under |-> "dist", ext |-> ".ts", dts |-> FALSE]]
TreePaths == DOMAIN PathInfo
\* parsedConfig.fileNames: the files the tsconfig lists
ListedPaths == NativePaths \cup {4, 6, 8}
Contents == 1..MaxContent
\* contents of the project configuration file
Configs == {1, 2}
Mtimes == 1..MaxMtime

Abs(rel) == <<ProjectRoot, rel>>
\* path.relative(projectRoot, filePath), separators made "/"
ToRelativePosixPath(filePath, projectRoot) == filePath[2]
\* extensions compared as they are spelt
ToLowerCase_AsSpelt(ext) == ext

\* String.prototype.toLowerCase on an extension
ToLowerCase(ext) ==
    CASE ext = ".TSX" -> ".tsx"
      [] ext = ".VUE" -> ".vue"
      [] OTHER -> ext
\* path.extname(fp).toLowerCase()
ExtName(filePath) == ToLowerCase(PathInfo[filePath[2]].ext)
\* EXCLUDED_PATTERNS: /node_modules/, /\.next/, /dist\//, /\.d\.ts$/
IsExcluded(filePath) ==
    \/ PathInfo[filePath[2]].under \in {"node_modules", ".next", "dist"}
    \/ PathInfo[filePath[2]].dts

\* sha256 of a content, hex
HashContent(c) == <<"sha256", c>>
\* hashFileContents: reads the file as it is now
HashFileContents(disk, filePath) == HashContent(disk[filePath[2]].content)

EmptyMap == <<>>
\* Map.prototype.get with the value returned on a miss
MapGet(m, k, miss) == IF k \in DOMAIN m THEN m[k] ELSE miss
MapSet(m, k, v) == [x \in DOMAIN m \cup {k} |-> IF x = k THEN v ELSE m[x]]
Range(s) == {s[i] : i \in 1..Len(s)}

RECURSIVE SeqOfSet(_)
\* the elements of a set of relative paths in ascending order
SeqOfSet(S) ==
    IF S = {} THEN <<>>
    ELSE LET m == CHOOSE x \in S : \A y \in S : x <= y
         IN <<m>> \o SeqOfSet(S \ {m})

RECURSIVE Flat(_)
\* Array.prototype.flat() of an array of arrays
Flat(ss) == IF ss = <<>> THEN <<>> ELSE Head(ss) \o Flat(Tail(ss))

\* `${relPath}#${name}`
MakeId(rel, name) == <<rel, name>>
\* a.id < b.id
IdLess(a, b) == a[1] < b[1] \/ (a[1] = b[1] /\ a[2] < b[2])

\* extractFileSymbols: the exported declarations of a source text, one SymbolDoc
\* each; content c exports the names 1..c, with signatures that depend on c
ExtractFileSymbols(rel, c) ==
    [n \in 1..c |-> [id |-> MakeId(rel, n), filePath |-> rel, name |-> n, signature |-> c]]

RECURSIVE InsertById(_, _)
InsertById(sym, sorted) ==
    IF sorted = <<>> THEN <<sym>>
    ELSE IF IdLess(sym.id, Head(sorted).id) THEN <<sym>> \o sorted
    ELSE <<Head(sorted)>> \o InsertById(sym, Tail(sorted))

\* a snapshot whose symbols stay in the order they were collected in
SortById_Unsorted(syms) == syms

RECURSIVE SortById(_)
\* allSymbols.sort((a, b) => a.id < b.id ? -1 : a.id > b.id ? 1 : 0), a stable sort
SortById(syms) ==
    IF syms = <<>> THEN <<>>
    ELSE InsertById(syms[Len(syms)], SortById(SubSeq(syms, 1, Len(syms) - 1)))

(***************************************************************************)
(* Plugins                                                                 *)
(***************************************************************************)
\* a plugin with extractSymbols, and one with extract, both claiming .vue
PluginA == [name |-> "a", extensions |-> {".vue"}, kind |-> "extractSymbols"]
PluginB == [name |-> "b", extensions |-> {".vue"}, kind |-> "extract"]
\* a plugin for an extension no file of the project has
PluginC == [name |-> "c", extensions |-> {".svelte"}, kind |-> "extractSymbols"]
\* a plugin for .tsx files, which the tsconfig lists too, and one that spells its
\* extension in upper case
PluginT == [name |-> "t", extensions |-> {".tsx"}, kind |-> "extractSymbols"]
PluginV == [name |-> "v", extensions |-> {".VUE"}, kind |-> "extract"]
\* a plugin for .json documents
PluginJ == [name |-> "j", extensions |-> {".json"}, kind |-> "extractSymbols"]
PluginLists == {<<>>, <<PluginA>>, <<PluginA, PluginB>>}
\* the plugin lists of the builds in which plugins throw
FailPluginLists == {<<PluginA>>, <<PluginA, PluginB>>, <<PluginA, PluginB, PluginC>>}

\* the plugin names in registration order, not sorted
SortedNames_AsRegistered(ps) == [k \in 1..Len(ps) |-> ps[k].name]

\* plugins.map((p) => p.name).sort()
SortedNames(ps) ==
    LET names == {ps[k].name : k \in 1..Len(ps)}
    IN SelectSeq(<<"a", "b", "c", "j", "t", "v">>, LAMBDA n : n \in names)

\* plugin.extractSymbols(filePath, content): the odd names come with an absolute
\* filePath and no id, the even ones with a relative filePath and an id
PluginExtractSymbols(filePath, c) ==
    [n \in 1..c |->
        IF n % 2 = 1
        THEN [id |-> NoId, filePath |-> filePath, name |-> 10 + n, signature |-> c]
        ELSE [id |-> MakeId(filePath[2], 10 + n), filePath |-> <<"", filePath[2]>>,
              name |-> 10 + n, signature |-> c]]

\* plugin.extract(filePath, content): TypeScript code, or null when the file has
\* nothing to translate (here: the even contents)
PluginExtract(filePath, c) == IF c % 2 = 0 THEN NoCode ELSE <<c>>

\* indexer.ts:242-250: a missing or absolute filePath becomes the relative path, and
\* the id is regenerated when it is missing or the filePath was rewritten
NormalizePluginSymbol(sym, relativePath) ==
    LET filePathChanged == sym.filePath = NoPath \/ sym.filePath[1] # ""
        fp == IF filePathChanged THEN relativePath ELSE sym.filePath[2]
    IN [sym EXCEPT !.filePath = fp,
                   !.id = IF sym.id = NoId \/ filePathChanged
                          THEN MakeId(fp, sym.name) ELSE sym.id]

\* indexer.ts:264-269: symbols of the virtual .ts file, pointed back at the original
RewriteVirtualSymbol(sym, relativePath) ==
    [sym EXCEPT !.filePath = relativePath, !.id = MakeId(relativePath, sym.name)]

\* findAllPluginFiles: one walk, one sorted bucket per plugin
FindAllPluginFiles(disk, ps) ==
    [k \in 1..Len(ps) |->
        LET found == {rel \in TreePaths :
                         /\ disk[rel] # NoFile
                         /\ ~IsExcluded(Abs(rel))
                         /\ ExtName(Abs(rel)) \in {ToLowerCase(ext) : ext \in ps[k].extensions}}
            sorted == SeqOfSet(found)
        IN [x \in 1..Len(sorted) |-> Abs(sorted[x])]]

(***************************************************************************)
(* cache.ts                                                                *)
(***************************************************************************)
\* a file fs.writeFile has opened for writing (truncated) and not yet written in full
Truncated == [partial |-> TRUE]
\* a file whose text is not JSON
NotJson == [garbage |-> TRUE]
\* a JSON value that is not an object keyed by relative paths, and one that is not
\* an array
NotAnObject == [k \in {0} |-> "not-an-object"]
NotAnArray == [k \in {0} |-> "not-an-array"]

\* JSON.parse(raw) does not throw
Parses(raw) == raw \notin {Truncated, NotJson}
\* typeof obj.files === "object" && obj.files !== null && !Array.isArray(obj.files)
IsObject(x) == 0 \notin DOMAIN x
\* a value the spread operator can iterate
IsIterable(x) == 0 \notin DOMAIN x

\* isValidCacheEnvelope: the five top-level fields are there with their types
IsValidCacheEnvelope(value) ==
    /\ {"cacheVersion", "indexVersion", "tsConfigHash", "pluginNames", "files"}
          \subseteq DOMAIN value
    /\ IsObject(value.files)

\* a loadCache that does not compare the plugin names
LoadCache_NoPluginCheck(onDisk, config, pluginNames, version) ==
    IF onDisk = NoFile THEN NoCache
    ELSE IF ~Parses(onDisk) THEN NoCache
    ELSE IF ~IsValidCacheEnvelope(onDisk) THEN NoCache
    ELSE IF onDisk.cacheVersion # CACHE_VERSION THEN NoCache
    ELSE IF onDisk.indexVersion # version THEN NoCache
    ELSE IF onDisk.tsConfigHash # HashContent(config) THEN NoCache
    ELSE [manifest |-> onDisk, tsConfigHash |-> HashContent(config)]

\* a loadCache that does not look at the configuration file
LoadCache_NoConfigCheck(onDisk, config, pluginNames, version) ==
    IF onDisk = NoFile THEN NoCache
    ELSE IF ~Parses(onDisk) THEN NoCache
    ELSE IF ~IsValidCacheEnvelope(onDisk) THEN NoCache
    ELSE IF onDisk.cacheVersion # CACHE_VERSION THEN NoCache
    ELSE IF onDisk.indexVersion # version THEN NoCache
    ELSE IF onDisk.pluginNames # pluginNames THEN NoCache
    ELSE [manifest |-> onDisk, tsConfigHash |-> onDisk.tsConfigHash]

\* loadCache: the manifest and the hash of the live tsconfig, or null
LoadCache(onDisk, config, pluginNames, version) ==
    IF onDisk = NoFile THEN NoCache
    ELSE IF ~Parses(onDisk) THEN NoCache
    ELSE IF ~IsValidCacheEnvelope(onDisk) THEN NoCache
    ELSE IF onDisk.cacheVersion # CACHE_VERSION THEN NoCache
    ELSE IF onDisk.indexVersion # version THEN NoCache
    ELSE IF onDisk.pluginNames # pluginNames THEN NoCache
    ELSE IF onDisk.tsConfigHash # HashContent(config) THEN NoCache
    ELSE [manifest |-> onDisk, tsConfigHash |-> HashContent(config)]

\* a check that trusts every cached entry: the hash is computed but not compared
CheckFile_NoCompare(filePath, cached, disk) ==
    LET currentMtime == disk[filePath[2]].mtimeMs
        currentHash == HashFileContents(disk, filePath)
    IN IF cached.mtimeMs # NoMtime /\ currentMtime = cached.mtimeMs
       THEN [absPath |-> filePath, match |-> TRUE, hash |-> NoHash, mtime |-> currentMtime]
       ELSE [absPath |-> filePath, match |-> TRUE, hash |-> currentHash,
             mtime |-> currentMtime]

\* a check without the mtime fast path: every cached file is read and hashed
CheckFile_NoFastPath(filePath, cached, disk) ==
    LET currentMtime == disk[filePath[2]].mtimeMs
        currentHash == HashFileContents(disk, filePath)
    IN [absPath |-> filePath, match |-> currentHash = cached.contentHash,
        hash |-> currentHash, mtime |-> currentMtime]

\* computeDiff, one element of a batch: stat, then the mtime fast path or the hash
CheckFile(filePath, cached, disk) ==
    LET currentMtime == disk[filePath[2]].mtimeMs
        currentHash == HashFileContents(disk, filePath)
    IN IF cached.mtimeMs # NoMtime /\ currentMtime = cached.mtimeMs
       THEN [absPath |-> filePath, match |-> TRUE, hash |-> NoHash, mtime |-> currentMtime]
       ELSE [absPath |-> filePath, match |-> currentHash = cached.contentHash,
             hash |-> currentHash, mtime |-> currentMtime]

\* a computeDiff that stats and hashes every current file, cached or not
ComputeDiff_HashesAll(currentFiles, projectRoot, cache, disk) ==
    LET rel(f) == ToRelativePosixPath(f, projectRoot)
        known == IF cache = NoCache THEN {} ELSE DOMAIN cache.files
        IsNew(f) == rel(f) \notin known
        IsKnown(f) == ~IsNew(f)
        needsCheck == SelectSeq(currentFiles, IsKnown)
        results == [k \in 1..Len(needsCheck) |->
                      CheckFile(needsCheck[k], cache.files[rel(needsCheck[k])], disk)]
        Matches(r) == r.match
        Differs(r) == ~r.match
        PathOf(rs) == [k \in 1..Len(rs) |-> rs[k].absPath]
        seenRelPaths == {rel(currentFiles[k]) : k \in 1..Len(currentFiles)}
    IN [changed |-> SelectSeq(currentFiles, IsNew) \o PathOf(SelectSeq(results, Differs)),
        deleted |-> known \ seenRelPaths,
        unchanged |-> PathOf(SelectSeq(results, Matches)),
        hashes |-> [f \in Range(currentFiles) |-> HashFileContents(disk, f)],
        mtimes |-> [f \in Range(currentFiles) |-> disk[rel(f)].mtimeMs]]

\* computeDiff: Throws when fs.stat rejects for a cached file that is gone
ComputeDiff(currentFiles, projectRoot, cache, disk) ==
    IF cache = NoCache
    THEN [changed |-> currentFiles, deleted |-> {}, unchanged |-> <<>>,
          hashes |-> EmptyMap, mtimes |-> EmptyMap]
    ELSE
      LET rel(f) == ToRelativePosixPath(f, projectRoot)
          IsNew(f) == rel(f) \notin DOMAIN cache.files
          IsKnown(f) == ~IsNew(f)
          newFiles == SelectSeq(currentFiles, IsNew)
          needsCheck == SelectSeq(currentFiles, IsKnown)
          results == [k \in 1..Len(needsCheck) |->
                        CheckFile(needsCheck[k], cache.files[rel(needsCheck[k])], disk)]
          Matches(r) == r.match
          Differs(r) == ~r.match
          PathOf(rs) == [k \in 1..Len(rs) |-> rs[k].absPath]
          hashed == {k \in 1..Len(results) : results[k].hash # NoHash}
          seenRelPaths == {rel(currentFiles[k]) : k \in 1..Len(currentFiles)}
      IN IF \E k \in 1..Len(needsCheck) : disk[rel(needsCheck[k])] = NoFile
         THEN Throws
         ELSE [changed |-> newFiles \o PathOf(SelectSeq(results, Differs)),
               deleted |-> (DOMAIN cache.files) \ seenRelPaths,
               unchanged |-> PathOf(SelectSeq(results, Matches)),
               hashes |-> [f \in {results[k].absPath : k \in hashed} |->
                              results[CHOOSE k \in hashed : results[k].absPath = f].hash],
               mtimes |-> [f \in {results[k].absPath : k \in 1..Len(results)} |->
                              results[CHOOSE k \in 1..Len(results) : results[k].absPath = f].mtime]]

(***************************************************************************)
(* cache.ts: computeDiff, batch by batch                                   *)
(***************************************************************************)
\* a DiffResult with nothing in it
NoDiff == [changed |-> <<>>, deleted |-> {}, unchanged |-> <<>>,
           hashes |-> EmptyMap, mtimes |-> EmptyMap]

\* no computeDiff call of its own is made
NoDiffRun == [pc |-> "none"]

\* a batch that holds every file left to check
BatchOf_Rest(needsCheck, i) == SubSeq(needsCheck, i + 1, Len(needsCheck))

\* needsCheck.slice(i, i + BATCH_CONCURRENCY)
BatchOf(needsCheck, i) ==
    SubSeq(needsCheck, i + 1,
           IF i + BATCH_CONCURRENCY < Len(needsCheck) THEN i + BATCH_CONCURRENCY
           ELSE Len(needsCheck))

\* computeDiff(currentFiles, projectRoot, cache) is called on a tree: its locals
DiffCall(currentFiles, cache) ==
    [pc |-> "enter", currentFiles |-> currentFiles, cache |-> cache,
     changed |-> <<>>, unchanged |-> <<>>, hashes |-> EmptyMap, mtimes |-> EmptyMap,
     needsCheck |-> <<>>, i |-> 0, batch |-> <<>>, pendingOps |-> 0, result |-> NoDiff]

\* cache.ts:123-152: without a cache every file is changed and the call returns;
\* with one, the files without an entry are changed and the others need a check
DiffEnter ==
    /\ diffRun.pc = "enter"
    /\ LET rel(f) == ToRelativePosixPath(f, ProjectRoot)
           IsNew(f) == rel(f) \notin DOMAIN diffRun.cache.files
           IsKnown(f) == ~IsNew(f)
       IN diffRun' =
            IF diffRun.cache = NoCache
            THEN [diffRun EXCEPT
                    !.pc = "done",
                    !.changed = diffRun.currentFiles,
                    !.result = [changed |-> diffRun.currentFiles, deleted |-> {},
                                unchanged |-> <<>>, hashes |-> EmptyMap,
                                mtimes |-> EmptyMap]]
            ELSE [diffRun EXCEPT
                    !.pc = IF Len(SelectSeq(diffRun.currentFiles, IsKnown)) > 0
                           THEN "slice" ELSE "deleted",
                    !.changed = SelectSeq(diffRun.currentFiles, IsNew),
                    !.needsCheck = SelectSeq(diffRun.currentFiles, IsKnown)]
    /\ UNCHANGED <<ctlVars, buildVars, watch>>

\* cache.ts:156-159: the next batch is sliced off and the check of each of its files
\* is started: all its stats are in flight
BatchStart ==
    /\ diffRun.pc = "slice"
    /\ diffRun' = [diffRun EXCEPT
                     !.pc = "await",
                     !.batch = BatchOf(diffRun.needsCheck, diffRun.i),
                     !.pendingOps = Len(BatchOf(diffRun.needsCheck, diffRun.i))]
    /\ UNCHANGED <<ctlVars, buildVars, watch>>

\* the files of the batch in flight that are gone from the disk
Gone(r) == {k \in 1..Len(r.batch) : fs[r.batch[k][2]] = NoFile}

\* cache.ts:159-169: the check of one file of the batch, whichever, comes to its end
\* with a result; the checks go on after the call has rejected
OpSettle ==
    /\ diffRun.pc \in {"await", "rejected"}
    /\ diffRun.pendingOps >
         (IF diffRun.pc = "await" THEN Cardinality(Gone(diffRun)) ELSE 0)
    /\ diffRun' = [diffRun EXCEPT !.pendingOps = @ - 1]
    /\ UNCHANGED <<ctlVars, buildVars, watch>>

\* cache.ts:158 and 161: fs.stat rejects for a file that is gone; Promise.all and
\* with it the call reject at once, whatever else of the batch is still in flight
OpRejects ==
    /\ diffRun.pc = "await"
    /\ Gone(diffRun) # {}
    /\ diffRun' = [diffRun EXCEPT !.pc = "rejected", !.pendingOps = @ - 1,
                                  !.result = Throws]
    /\ UNCHANGED <<ctlVars, buildVars, watch>>

\* cache.ts:158 and 171-176: Promise.all resolves with the results in the order of
\* the batch; they are merged and the loop goes on to the next batch
BatchMerge ==
    /\ diffRun.pc = "await"
    /\ diffRun.pendingOps = 0
    /\ Gone(diffRun) = {}
    /\ LET results == [k \in 1..Len(diffRun.batch) |->
                         CheckFile(diffRun.batch[k],
                                   diffRun.cache.files[diffRun.batch[k][2]], fs)]
           Matches(r) == r.match
           Differs(r) == ~r.match
           PathOf(rs) == [k \in 1..Len(rs) |-> rs[k].absPath]
           hashed == {k \in 1..Len(results) : results[k].hash # NoHash}
       IN diffRun' = [diffRun EXCEPT
                        !.pc = IF diffRun.i + BATCH_CONCURRENCY < Len(diffRun.needsCheck)
                               THEN "slice" ELSE "deleted",
                        !.i = @ + BATCH_CONCURRENCY,
                        !.batch = <<>>,
                        !.changed = @ \o PathOf(SelectSeq(results, Differs)),
                        !.unchanged = @ \o PathOf(SelectSeq(results, Matches)),
                        !.hashes = [f \in DOMAIN @ \cup {results[k].absPath : k \in hashed} |->
                                      IF f \in DOMAIN @ THEN @[f]
                                      ELSE results[CHOOSE k \in hashed :
                                                     results[k].absPath = f].hash],
                        !.mtimes = [f \in DOMAIN @ \cup Range(diffRun.batch) |->
                                      IF f \in DOMAIN @ THEN @[f]
                                      ELSE results[CHOOSE k \in 1..Len(results) :
                                                     results[k].absPath = f].mtime]]
    /\ UNCHANGED <<ctlVars, buildVars, watch>>

\* cache.ts:178-185: the cache-known paths that were not seen, and the result
DiffReturn ==
    /\ diffRun.pc = "deleted"
    /\ diffRun' = [diffRun EXCEPT
                     !.pc = "done",
                     !.result = [changed |-> diffRun.changed,
                                 deleted |-> (DOMAIN diffRun.cache.files)
                                               \ {f[2] : f \in Range(diffRun.currentFiles)},
                                 unchanged |-> diffRun.unchanged,
                                 hashes |-> diffRun.hashes,
                                 mtimes |-> diffRun.mtimes]]
    /\ UNCHANGED <<ctlVars, buildVars, watch>>

(***************************************************************************)
(* indexer.ts: generateDocIndex                                            *)
(***************************************************************************)
\* no generateDocIndex is running
IdleRun == [pc |-> "idle", incremental |-> FALSE, tsFiles |-> <<>>, cache |-> NoCache,
            tsConfigHash |-> NoHash, newFileEntries |-> EmptyMap, allSymbols |-> <<>>,
            tsDiff |-> NoDiff, pluginDiff |-> NoDiff, i |-> 0, work |-> <<>>, w |-> 0,
            initialized |-> <<>>, extracted |-> <<>>, diskAtTsDiff |-> <<>>,
            diskAtPluginDiff |-> <<>>, result |-> "none", returned |-> NoFile,
            editsAtBegin |-> 0, pending |-> <<>>, manifest |-> NoCache,
            disposed |-> <<>>, indexAtBegin |-> NoFile, cacheAtBegin |-> NoFile,
            configAtBegin |-> 0, threw |-> "none", failedInit |-> 0,
            batchSize |-> 0, project |-> 0, projects |-> 0, events |-> <<>>]

\* what generateDocIndex does to its collaborators, in order: "fresh" is a call of
\* createFreshProject that makes extraction context `project`, "progress" a call of
\* onProgress, "extract" the extraction of a file by plugin k (0: the native
\* extractor) in context `project`, "init" and "dispose" the calls on plugin k
Ev(e, k, file, current, total, project) ==
    [e |-> e, k |-> k, file |-> file, current |-> current, total |-> total,
     project |-> project]
\* for (const p of initializedPlugins) await p.dispose?.()
DisposeEvents(initialized) ==
    [j \in 1..Len(initialized) |-> Ev("dispose", initialized[j], 0, 0, 0, 0)]
\* for (const p of initializedPlugins) await p.init?.(context)
InitEvents(initialized, project) ==
    [j \in 1..Len(initialized) |-> Ev("init", initialized[j], 0, 0, 0, project)]

\* a carry-forward that keeps the cached entry as it is, stale mtimeMs included
CarriedEntry_Stale(entry, freshMtime) == entry

\* the entry an unchanged file is carried forward with: the cached entry, its mtimeMs
\* replaced when the diff stat'd a different one
CarriedEntry(entry, freshMtime) ==
    IF freshMtime # NoMtime /\ freshMtime # entry.mtimeMs
    THEN [entry EXCEPT !.mtimeMs = freshMtime]
    ELSE entry

RECURSIVE CarryForward(_, _, _, _)
\* indexer.ts:128-144 and 187-202: the loop over diff.unchanged; acc holds
\* newFileEntries and allSymbols
CarryForward(unchanged, cache, mtimes, acc) ==
    IF unchanged = <<>> THEN acc
    ELSE LET absPath == Head(unchanged)
             relPath == ToRelativePosixPath(absPath, ProjectRoot)
         IN IF relPath \notin DOMAIN cache.files
            THEN CarryForward(Tail(unchanged), cache, mtimes, acc)
            ELSE LET entry == cache.files[relPath]
                 IN CarryForward(Tail(unchanged), cache, mtimes,
                       [entries |-> MapSet(acc.entries, relPath,
                                       CarriedEntry(entry, MapGet(mtimes, absPath, NoMtime))),
                        symbols |-> acc.symbols \o entry.symbols])

\* allSymbols.push(...entry.symbols) (indexer.ts:134 and 193) throws a TypeError for
\* an unchanged file whose cached symbols are not iterable
SpreadThrows(unchanged, cache) ==
    /\ cache # NoCache
    /\ \E k \in 1..Len(unchanged) :
          /\ unchanged[k][2] \in DOMAIN cache.files
          /\ ~IsIterable(cache.files[unchanged[k][2]].symbols)

\* where generateDocIndex goes after the native phase
AfterNative(ps) == IF Len(ps) > 0 THEN "pluginBegin" ELSE "finish"

\* indexer.ts:61-117: options, the file list of the tsconfig, the first extraction
\* context, loadCache
BuildBeginWith(incremental, batchSize) ==
    /\ run.pc = "idle"
    /\ builds < MaxBuilds
    /\ LET allFilePaths == [k \in 1..Len(SeqOfSet({r \in ListedPaths : fs[r] # NoFile})) |->
                              Abs(SeqOfSet({r \in ListedPaths : fs[r] # NoFile})[k])]
           pluginClaimedExtensions ==
               {ToLowerCase(ext) : ext \in UNION {plugins[k].extensions : k \in 1..Len(plugins)}}
           IsTsFile(fp) == ~IsExcluded(fp) /\ ExtName(fp) \notin pluginClaimedExtensions
           cacheResult == IF incremental
                          THEN LoadCache(cacheFile, tsConfig, SortedNames(plugins), indexVersion)
                          ELSE NoCache
       IN run' = [IdleRun EXCEPT
                    !.pc = "tsDiff",
                    !.incremental = incremental,
                    !.tsFiles = SelectSeq(allFilePaths, IsTsFile),
                    !.cache = IF cacheResult = NoCache THEN NoCache ELSE cacheResult.manifest,
                    !.tsConfigHash = IF cacheResult = NoCache THEN NoHash
                                     ELSE cacheResult.tsConfigHash,
                    !.editsAtBegin = edits,
                    !.indexAtBegin = indexFile,
                    !.cacheAtBegin = cacheFile,
                    !.configAtBegin = tsConfig,
                    !.batchSize = batchSize,
                    !.project = 1,
                    !.projects = 1,
                    !.events = <<Ev("fresh", 0, 0, 0, 0, 1)>>]
    /\ prev' = [result |-> run.result, returned |-> run.returned,
                editsAtBegin |-> run.editsAtBegin, incremental |-> run.incremental]
    /\ builds' = builds + 1
    /\ UNCHANGED <<fs, tsConfig, cacheFile, indexFile, plugins, edits>>

\* options.batchSize ?? 50
BuildBegin(incremental) == BuildBeginWith(incremental, DefaultBatchSize)

\* generateDocIndex rejects: nothing is written; the finally block at
\* indexer.ts:291-296 has disposed the plugins that were initialized
Rejected(r) == [r EXCEPT !.pc = "idle", !.result = "error", !.returned = NoFile,
                         !.disposed = r.initialized,
                         !.events = @ \o DisposeEvents(r.initialized)]

\* a loop that re-extracts every native file, changed or not
NativeWork_All(tsDiff) == tsDiff.changed \o tsDiff.unchanged

\* indexer.ts:147: the files the native extraction loop visits, in order
NativeWork(tsDiff) == tsDiff.changed

\* indexer.ts:126-144: computeDiff for the native files, then the carry-forward loop
DiffNative ==
    /\ run.pc = "tsDiff"
    /\ LET tsDiff == ComputeDiff(run.tsFiles, ProjectRoot, run.cache, fs)
       IN IF tsDiff = Throws
          THEN run' = Rejected(run)
          ELSE IF SpreadThrows(tsDiff.unchanged, run.cache)
          THEN run' = [Rejected(run) EXCEPT !.threw = "spread"]
          ELSE LET carried == IF run.cache = NoCache
                              THEN [entries |-> EmptyMap, symbols |-> <<>>]
                              ELSE CarryForward(tsDiff.unchanged, run.cache, tsDiff.mtimes,
                                                [entries |-> EmptyMap, symbols |-> <<>>])
               IN run' = [run EXCEPT
                            !.pc = IF Len(NativeWork(tsDiff)) > 0 THEN "tsExtract"
                                   ELSE AfterNative(plugins),
                            !.tsDiff = tsDiff,
                            !.diskAtTsDiff = fs,
                            !.newFileEntries = carried.entries,
                            !.allSymbols = carried.symbols,
                            !.i = 0]
    /\ UNCHANGED <<fs, tsConfig, cacheFile, indexFile, plugins, prev, builds, edits>>

\* a native loop that reports the zero-based index as current
NativeStep_ZeroBased(r) ==
    LET boundary == r.i > 0 /\ r.i % r.batchSize = 0
        project == IF boundary THEN r.projects + 1 ELSE r.project
        relPath == ToRelativePosixPath(NativeWork(r.tsDiff)[r.i + 1], ProjectRoot)
    IN [r EXCEPT
          !.project = project,
          !.projects = IF boundary THEN @ + 1 ELSE @,
          !.events = @ \o (IF boundary THEN <<Ev("fresh", 0, 0, 0, 0, project)>> ELSE <<>>)
                       \o <<Ev("progress", 0, relPath, r.i, Len(r.tsDiff.changed),
                               project)>>]

\* indexer.ts:148-153: the head of an iteration of the native loop: a fresh
\* extraction context at a batch boundary, then the progress report
NativeStep(r) ==
    LET boundary == r.i > 0 /\ r.i % r.batchSize = 0
        project == IF boundary THEN r.projects + 1 ELSE r.project
        relPath == ToRelativePosixPath(NativeWork(r.tsDiff)[r.i + 1], ProjectRoot)
    IN [r EXCEPT
          !.project = project,
          !.projects = IF boundary THEN @ + 1 ELSE @,
          !.events = @ \o (IF boundary THEN <<Ev("fresh", 0, 0, 0, 0, project)>> ELSE <<>>)
                       \o <<Ev("progress", 0, relPath, r.i + 1, Len(r.tsDiff.changed),
                               project)>>]

\* indexer.ts:147-157: one iteration of the loop over tsDiff.changed, up to the
\* first await: the file is read and its symbols are extracted
ExtractNative ==
    /\ run.pc = "tsExtract"
    /\ LET filePath == NativeWork(run.tsDiff)[run.i + 1]
           relPath == ToRelativePosixPath(filePath, ProjectRoot)
           step == NativeStep(run)
       IN IF fs[relPath] = NoFile
          THEN run' = Rejected(step)
          ELSE LET symbols == ExtractFileSymbols(relPath, fs[relPath].content)
               IN run' = [step EXCEPT
                            !.allSymbols = @ \o symbols,
                            !.pending = symbols,
                            !.extracted = Append(@, <<0, relPath>>),
                            !.events = Append(@, Ev("extract", 0, relPath, 0, 0,
                                                    step.project)),
                            !.pc = "tsStore"]
    /\ UNCHANGED <<fs, tsConfig, cacheFile, indexFile, plugins, prev, builds, edits>>

\* indexer.ts:159-162: the rest of the iteration: the hash and the stat, taken from
\* the diff or from the file as it is now, and the cache entry
StoreNative ==
    /\ run.pc = "tsStore"
    /\ LET filePath == NativeWork(run.tsDiff)[run.i + 1]
           relPath == ToRelativePosixPath(filePath, ProjectRoot)
       IN IF fs[relPath] = NoFile /\ (filePath \notin DOMAIN run.tsDiff.hashes
                                       \/ filePath \notin DOMAIN run.tsDiff.mtimes)
          THEN run' = Rejected(run)
          ELSE LET contentHash == MapGet(run.tsDiff.hashes, filePath,
                                         HashFileContents(fs, filePath))
                   mtimeMs == MapGet(run.tsDiff.mtimes, filePath, fs[relPath].mtimeMs)
               IN run' = [run EXCEPT
                            !.newFileEntries = MapSet(@, relPath,
                                [contentHash |-> contentHash, symbols |-> run.pending,
                                 mtimeMs |-> mtimeMs]),
                            !.pending = <<>>,
                            !.i = @ + 1,
                            !.pc = IF run.i + 1 < Len(NativeWork(run.tsDiff))
                                   THEN "tsExtract"
                                   ELSE AfterNative(plugins)]
    /\ UNCHANGED <<fs, tsConfig, cacheFile, indexFile, plugins, prev, builds, edits>>

\* plugin loops that go through the changed files in path order and run, for each
\* file, the plugins that claim it
PluginWork_ByPath(lists, changedPluginSet) ==
    LET rels == SeqOfSet({f[2] : f \in changedPluginSet \cap Range(Flat(lists))})
    IN Flat([n \in 1..Len(rels) |->
               LET claiming == SelectSeq([k \in 1..Len(lists) |-> k],
                                  LAMBDA k : Abs(rels[n]) \in Range(lists[k]))
               IN [j \in 1..Len(claiming) |-> <<claiming[j], Abs(rels[n])>>]])

\* the (plugin, file) pairs of the loops at indexer.ts:216-221, in order
PluginWork(lists, changedPluginSet) ==
    Flat([pi \in 1..Len(lists) |->
            LET files == SelectSeq(lists[pi], LAMBDA f : f \in changedPluginSet)
            IN [k \in 1..Len(files) |-> <<pi, files[k]>>]])

\* indexer.ts:168-178: a fresh extraction context for the plugin phase and the
\* plugins whose init returned, in registration order
PluginPhase(r, initializedPlugins) ==
    [r EXCEPT
       !.project = r.projects + 1,
       !.projects = @ + 1,
       !.initialized = initializedPlugins,
       !.events = @ \o <<Ev("fresh", 0, 0, 0, 0, r.projects + 1)>>
                    \o InitEvents(initializedPlugins, r.projects + 1)]

\* indexer.ts:166-214: init of every plugin, the walk, computeDiff for the plugin
\* files, the carry-forward loop
PluginBegin ==
    /\ run.pc = "pluginBegin"
    /\ LET pluginFileLists == FindAllPluginFiles(fs, plugins)
           allPluginFiles == Flat(pluginFileLists)
           pluginDiff == ComputeDiff(allPluginFiles, ProjectRoot, run.cache, fs)
           carried == IF run.cache = NoCache
                      THEN [entries |-> run.newFileEntries, symbols |-> run.allSymbols]
                      ELSE CarryForward(pluginDiff.unchanged, run.cache, pluginDiff.mtimes,
                              [entries |-> run.newFileEntries, symbols |-> run.allSymbols])
           work == PluginWork(pluginFileLists, Range(pluginDiff.changed))
           initializedPlugins == [k \in 1..Len(plugins) |-> k]
           started == PluginPhase(run, initializedPlugins)
       IN IF SpreadThrows(pluginDiff.unchanged, run.cache)
          THEN run' = [Rejected(started) EXCEPT !.threw = "spread"]
          ELSE
          run' = [started EXCEPT
                    !.pc = IF Len(work) > 0 THEN "pluginExtract" ELSE "finish",
                    !.pluginDiff = pluginDiff,
                    !.diskAtPluginDiff = fs,
                    !.newFileEntries = carried.entries,
                    !.allSymbols = carried.symbols,
                    !.work = work,
                    !.w = 0]
    /\ UNCHANGED <<fs, tsConfig, cacheFile, indexFile, plugins, prev, builds, edits>>

\* the symbols one plugin produces for one file (indexer.ts:240-274)
PluginSymbols(plugin, filePath, relativePath, content) ==
    IF plugin.kind = "extractSymbols"
    THEN LET symbols == PluginExtractSymbols(filePath, content)
         IN [k \in 1..Len(symbols) |-> NormalizePluginSymbol(symbols[k], relativePath)]
    ELSE LET tsCode == PluginExtract(filePath, content)
         IN IF tsCode = NoCode THEN <<>>
            ELSE LET symbols == ExtractFileSymbols(relativePath, tsCode[1])
                 IN [k \in 1..Len(symbols) |-> RewriteVirtualSymbol(symbols[k], relativePath)]

\* indexer.ts:276-288: the cache entry of a plugin file, merged with the entry an
\* earlier plugin made for the same file
MergedEntry(entries, relativePath, contentHash, fileSymbols, mtimeMs) ==
    IF relativePath \in DOMAIN entries
    THEN [contentHash |-> contentHash,
          symbols |-> entries[relativePath].symbols \o fileSymbols,
          mtimeMs |-> mtimeMs]
    ELSE [contentHash |-> contentHash, symbols |-> fileSymbols, mtimeMs |-> mtimeMs]

\* plugin loops that keep the plugins and their extraction context for the whole
\* phase
PluginStep_KeepsContext(r) ==
    [r EXCEPT
       !.events = Append(@, Ev("progress", r.work[r.w + 1][1],
                               ToRelativePosixPath(r.work[r.w + 1][2], ProjectRoot),
                               r.w + 1, Len(r.pluginDiff.changed), r.project))]

\* indexer.ts:223-236: the head of an iteration of the plugin loops: at a batch
\* boundary every initialized plugin is disposed, a fresh extraction context is made
\* and every plugin is initialized with it; then the progress report
PluginStep(r) ==
    LET boundary == r.w > 0 /\ r.w % r.batchSize = 0
        project == IF boundary THEN r.projects + 1 ELSE r.project
        pi == r.work[r.w + 1][1]
        relativePath == ToRelativePosixPath(r.work[r.w + 1][2], ProjectRoot)
    IN [r EXCEPT
          !.project = project,
          !.projects = IF boundary THEN @ + 1 ELSE @,
          !.events = @ \o (IF boundary
                           THEN DisposeEvents(r.initialized)
                                \o <<Ev("fresh", 0, 0, 0, 0, project)>>
                                \o InitEvents(r.initialized, project)
                           ELSE <<>>)
                       \o <<Ev("progress", pi, relativePath, r.w + 1,
                               Len(r.pluginDiff.changed), project)>>]

\* indexer.ts:220-274: one changed file of one plugin: the file is read and the
\* plugin extracts its symbols
ExtractPlugin ==
    /\ run.pc = "pluginExtract"
    /\ LET pi == run.work[run.w + 1][1]
           filePath == run.work[run.w + 1][2]
           relativePath == ToRelativePosixPath(filePath, ProjectRoot)
           step == PluginStep(run)
       IN IF fs[relativePath] = NoFile
          THEN run' = Rejected(step)
          ELSE LET fileSymbols == PluginSymbols(plugins[pi], filePath, relativePath,
                                                fs[relativePath].content)
               IN run' = [step EXCEPT
                            !.allSymbols = @ \o fileSymbols,
                            !.pending = fileSymbols,
                            !.extracted = Append(@, <<pi, relativePath>>),
                            !.events = Append(@, Ev("extract", pi, relativePath, 0, 0,
                                                    step.project)),
                            !.pc = "pluginStore"]
    /\ UNCHANGED <<fs, tsConfig, cacheFile, indexFile, plugins, prev, builds, edits>>

\* indexer.ts:276-288: the hash and the stat, taken from the diff or from the file
\* as it is now, and the (merged) cache entry
StorePlugin ==
    /\ run.pc = "pluginStore"
    /\ LET filePath == run.work[run.w + 1][2]
           relativePath == ToRelativePosixPath(filePath, ProjectRoot)
       IN IF fs[relativePath] = NoFile /\ (filePath \notin DOMAIN run.pluginDiff.hashes
                                            \/ filePath \notin DOMAIN run.pluginDiff.mtimes)
          THEN run' = Rejected(run)
          ELSE LET contentHash == MapGet(run.pluginDiff.hashes, filePath,
                                         HashFileContents(fs, filePath))
                   mtimeMs == MapGet(run.pluginDiff.mtimes, filePath,
                                     fs[relativePath].mtimeMs)
               IN run' = [run EXCEPT
                            !.newFileEntries = MapSet(@, relativePath,
                                MergedEntry(@, relativePath, contentHash, run.pending,
                                            mtimeMs)),
                            !.pending = <<>>,
                            !.w = @ + 1,
                            !.pc = IF run.w + 1 < Len(run.work) THEN "pluginExtract"
                                   ELSE "finish"]
    /\ UNCHANGED <<fs, tsConfig, cacheFile, indexFile, plugins, prev, builds, edits>>

\* a manifest that is the loaded cache updated in place: old entries are kept
NewManifestFiles_Merge(cache, newFileEntries) ==
    IF cache = NoCache THEN newFileEntries
    ELSE [rel \in DOMAIN cache.files \cup DOMAIN newFileEntries |->
            IF rel \in DOMAIN newFileEntries THEN newFileEntries[rel]
            ELSE cache.files[rel]]

\* indexer.ts:120 and 322: the files of the new manifest are the entries this build
\* collected, nothing of the loaded cache besides
NewManifestFiles(cache, newFileEntries) == newFileEntries

\* indexer.ts:291-325: dispose, sort, build the snapshot and the manifest, and
\* start the writes of index.json and (incremental) cache.json
Finish ==
    /\ run.pc = "finish"
    /\ LET docIndex == [version |-> indexVersion, generatedAt |-> builds,
                        projectRoot |-> ProjectRoot, symbols |-> SortById(run.allSymbols)]
           newManifest == [cacheVersion |-> CACHE_VERSION,
                           indexVersion |-> indexVersion,
                           tsConfigHash |-> IF run.tsConfigHash # NoHash THEN run.tsConfigHash
                                            ELSE HashContent(tsConfig),
                           pluginNames |-> SortedNames(plugins),
                           files |-> NewManifestFiles(run.cache, run.newFileEntries)]
       IN /\ indexFile' = Truncated
          /\ cacheFile' = IF run.incremental THEN Truncated ELSE cacheFile
          /\ run' = [run EXCEPT !.pc = "writing", !.returned = docIndex,
                                !.manifest = newManifest,
                                !.disposed = run.initialized,
                                !.events = @ \o DisposeEvents(run.initialized)]
    /\ UNCHANGED <<fs, tsConfig, plugins, prev, builds, edits>>

\* indexer.ts:326-328: both writes have completed; generateDocIndex returns
WriteDone ==
    /\ run.pc = "writing"
    /\ indexFile' = run.returned
    /\ cacheFile' = IF run.incremental THEN run.manifest ELSE cacheFile
    /\ run' = [run EXCEPT !.pc = "idle", !.result = "ok"]
    /\ UNCHANGED <<fs, tsConfig, plugins, prev, builds, edits>>

(***************************************************************************)
(* generateDocIndex: a collaborator throws                                 *)
(***************************************************************************)
\* a build that catches the error of a plugin's per-file extraction and goes on
\* with the next file
ErrorPropagates_SkipsBadFile(cause) == cause # "extract"

\* indexer.ts:147-163 and 172-296: no catch anywhere in generateDocIndex, an error
\* thrown by a collaborator rejects the returned promise
ErrorPropagates(cause) == TRUE

\* the plugins the finally block (indexer.ts:291-296) calls dispose on: all that
\* were initialized (d = 0), or those up to the d-th, whose dispose throws and
\* ends the loop
DisposedBy(initialized, d) ==
    IF d = 0 THEN initialized ELSE SubSeq(initialized, 1, d)

\* generateDocIndex rejects because a collaborator threw; k is the plugin whose
\* init threw, if any
RejectedAfter(r, cause, k, d) ==
    [r EXCEPT !.pc = "idle", !.result = "error", !.returned = NoFile,
              !.threw = cause, !.failedInit = k,
              !.disposed = DisposedBy(r.initialized, d),
              !.events = @ \o DisposeEvents(DisposedBy(r.initialized, d))]

\* indexer.ts:154-155: project.addSourceFileAtPath or extractFileSymbols throws;
\* no plugin is initialized yet
ExtractNativeThrows ==
    /\ run.pc = "tsExtract"
    /\ run' = IF ErrorPropagates("extractor")
              THEN RejectedAfter(NativeStep(run), "extractor", 0, 0)
              ELSE [NativeStep(run) EXCEPT !.threw = "extractor", !.i = @ + 1,
                               !.pc = IF run.i + 1 < Len(NativeWork(run.tsDiff))
                                      THEN "tsExtract" ELSE AfterNative(plugins)]
    /\ UNCHANGED <<fs, tsConfig, cacheFile, indexFile, plugins, prev, builds, edits>>

\* indexer.ts:174-178: the init of plugin k throws after plugins 1..k-1 were
\* initialized; the finally block disposes them
PluginInitThrows(k, d) ==
    /\ run.pc = "pluginBegin"
    /\ k \in 1..Len(plugins)
    /\ d \in 0..(k - 1)
    /\ run' = RejectedAfter(PluginPhase(run, [j \in 1..(k - 1) |-> j]), "init", k, d)
    /\ UNCHANGED <<fs, tsConfig, cacheFile, indexFile, plugins, prev, builds, edits>>

\* indexer.ts:237-274: the plugin's extractSymbols or extract (or the extractor on
\* the translated code) throws for a changed file
ExtractPluginThrows(d) ==
    /\ run.pc = "pluginExtract"
    /\ d \in 0..Len(run.initialized)
    /\ run' = IF ErrorPropagates("extract")
              THEN RejectedAfter(PluginStep(run), "extract", 0, d)
              ELSE [PluginStep(run) EXCEPT !.threw = "extract", !.w = @ + 1,
                               !.pc = IF run.w + 1 < Len(run.work) THEN "pluginExtract"
                                      ELSE "finish"]
    /\ UNCHANGED <<fs, tsConfig, cacheFile, indexFile, plugins, prev, builds, edits>>

\* indexer.ts:293-295: after a plugin phase without an error, the dispose of the
\* d-th initialized plugin throws
DisposeThrows(d) ==
    /\ run.pc = "finish"
    /\ d \in 1..Len(run.initialized)
    /\ run' = RejectedAfter(run, "dispose", 0, d)
    /\ UNCHANGED <<fs, tsConfig, cacheFile, indexFile, plugins, prev, builds, edits>>

\* the iteration of the plugin loops that is about to run starts a new batch
AtBatchBoundary(r) == r.w > 0 /\ r.w % r.batchSize = 0

\* indexer.ts:224-227: at a batch boundary the dispose of the d-th initialized
\* plugin throws after those before it were disposed; the finally block then calls
\* dispose on every initialized plugin, up to the f-th if that one throws
BoundaryDisposeThrows(d, f) ==
    /\ run.pc = "pluginExtract"
    /\ AtBatchBoundary(run)
    /\ d \in 1..Len(run.initialized)
    /\ f \in 0..Len(run.initialized)
    /\ run' = RejectedAfter(
                 [run EXCEPT !.events = @ \o DisposeEvents(SubSeq(run.initialized, 1, d))],
                 "boundaryDispose", 0, f)
    /\ UNCHANGED <<fs, tsConfig, cacheFile, indexFile, plugins, prev, builds, edits>>

\* indexer.ts:224-231: at a batch boundary every initialized plugin is disposed, a
\* fresh extraction context is made, and the init of the k-th plugin throws after
\* those before it were initialized again; then the finally block as above
BoundaryInitThrows(k, f) ==
    /\ run.pc = "pluginExtract"
    /\ AtBatchBoundary(run)
    /\ k \in 1..Len(run.initialized)
    /\ f \in 0..Len(run.initialized)
    /\ run' = RejectedAfter(
                 [run EXCEPT
                    !.project = run.projects + 1,
                    !.projects = @ + 1,
                    !.events = @ \o DisposeEvents(run.initialized)
                                 \o <<Ev("fresh", 0, 0, 0, 0, run.projects + 1)>>
                                 \o InitEvents(SubSeq(run.initialized, 1, k - 1),
                                               run.projects + 1)],
                 "boundaryInit", k, f)
    /\ UNCHANGED <<fs, tsConfig, cacheFile, indexFile, plugins, prev, builds, edits>>

(***************************************************************************)
(* The project's files change under the engine                             *)
(***************************************************************************)
\* a source file is created or written, with any content and modification time
WriteFile(rel, c, m) ==
    /\ edits < MaxEdits
    /\ fs[rel] # [content |-> c, mtimeMs |-> m]
    /\ fs' = [fs EXCEPT ![rel] = [content |-> c, mtimeMs |-> m]]
    /\ edits' = edits + 1
    /\ UNCHANGED <<tsConfig, cacheFile, indexFile, plugins, run, prev, builds>>

\* a source file is removed
RemoveFile(rel) ==
    /\ edits < MaxEdits
    /\ fs[rel] # NoFile
    /\ fs' = [fs EXCEPT ![rel] = NoFile]
    /\ edits' = edits + 1
    /\ UNCHANGED <<tsConfig, cacheFile, indexFile, plugins, run, prev, builds>>

\* the project configuration file is rewritten with another content
ChangeConfig ==
    /\ edits < MaxEdits
    /\ tsConfig' \in Configs \ {tsConfig}
    /\ edits' = edits + 1
    /\ UNCHANGED <<fs, cacheFile, indexFile, plugins, run, prev, builds>>

\* a cache.json written by a release that did not store mtimeMs, for the given tree
LegacyCache(disk, config, ps) ==
    [cacheVersion |-> CACHE_VERSION, indexVersion |-> indexVersion,
     tsConfigHash |-> HashContent(config), pluginNames |-> SortedNames(ps),
     files |-> [rel \in {r \in NativePaths : disk[r] # NoFile} |->
                  [contentHash |-> HashContent(disk[rel].content),
                   symbols |-> ExtractFileSymbols(rel, disk[rel].content),
                   mtimeMs |-> NoMtime]]]

\* a project before the first generateDocIndex: its configuration, a registered
\* plugin list and what the output directory holds of cache.json
InitProject(lists, caches) ==
    /\ tsConfig = 1
    /\ plugins \in lists
    /\ cacheFile \in caches
    /\ indexFile = NoFile
    /\ run = IdleRun
    /\ prev = [result |-> "none", returned |-> NoFile, editsAtBegin |-> 0,
               incremental |-> FALSE]
    /\ builds = 0
    /\ edits = 0

\* a project tree with the given files, before the first generateDocIndex;
\* computeDiff is not called on its own
InitTree(present, lists, caches) ==
    /\ diffRun = NoDiffRun
    /\ watch = NoWatcher
    /\ fs = [rel \in TreePaths |->
               IF rel \in present THEN [content |-> 1, mtimeMs |-> 1] ELSE NoFile]
    /\ InitProject(lists, caches)

\* a project of three files
InitFiles(lists, caches) == InitTree(AllPaths, lists, caches)

\* a cache.json this release wrote for the initial tree and the plugin list ps;
\* the plugin files have no entry yet
GoodCache(ps) ==
    [cacheVersion |-> CACHE_VERSION, indexVersion |-> indexVersion,
     tsConfigHash |-> HashContent(1), pluginNames |-> SortedNames(ps),
     files |-> [rel \in NativePaths |->
                  [contentHash |-> HashContent(1),
                   symbols |-> ExtractFileSymbols(rel, 1),
                   mtimeMs |-> 1]]]

\* what cache.json can hold that is not a usable manifest: no file, an interrupted
\* write, text that is not JSON, an envelope with a field missing or of the wrong
\* type, and a manifest of another cache format, index schema, plugin list or
\* configuration
StaleCaches(ps) ==
    {NoFile, Truncated, NotJson,
     [indexVersion |-> indexVersion, tsConfigHash |-> HashContent(1),
      pluginNames |-> SortedNames(ps), files |-> GoodCache(ps).files],
     [GoodCache(ps) EXCEPT !.files = NotAnObject],
     [GoodCache(ps) EXCEPT !.cacheVersion = "0"],
     [GoodCache(ps) EXCEPT !.indexVersion = "0.9.0"],
     [GoodCache(ps) EXCEPT !.pluginNames = <<"z">> \o SortedNames(ps)],
     [GoodCache(ps) EXCEPT !.tsConfigHash = HashContent(2)]}

\* a manifest that passes every check of loadCache but has a file entry of the wrong
\* shape: symbols that are not an array
DamagedCaches(ps) ==
    {[GoodCache(ps) EXCEPT !.files[1].symbols = NotAnArray]}

InitBuild ==
    InitFiles(PluginLists,
              {NoFile, LegacyCache([rel \in AllPaths |-> [content |-> 1, mtimeMs |-> 1]],
                                   1, <<>>)})

(***************************************************************************)
(* watcher.ts: watchAndRegenerate                                          *)
(***************************************************************************)
\* IGNORED_PATTERNS: /node_modules/, /\.next/, /dist\//, /\.armillary-mcp-docs/;
\* /\.d\.ts$/ is the dts field of a path
IgnoredDirs == {"node_modules", ".next", "dist", ".armillary-mcp-docs"}
\* index.json and cache.json in the directory of options.outputPath; the tsconfig
\* file
OutputFileInfo(dir) == [under |-> dir, ext |-> ".json", dts |-> FALSE]
ConfigFileInfo == [under |-> "", ext |-> ".json", dts |-> FALSE]

\* a watcher that reports every path
ShouldIgnore_Nothing(info, pluginExtensions) == FALSE

\* shouldIgnore for the path of a file: an ignored pattern, or an extension that is
\* neither .ts/.tsx/.js/.jsx nor, lower-cased, one of the plugin extensions
ShouldIgnore(info, pluginExtensions) ==
    \/ info.under \in IgnoredDirs
    \/ info.dts
    \/ /\ info.ext \notin {".ts", ".tsx", ".js", ".jsx"}
       /\ ToLowerCase(info.ext) \notin pluginExtensions

\* watcher.ts:137-146: the lower-cased extensions of the registered plugins
PluginExtensions(ps) ==
    {ToLowerCase(ext) : ext \in UNION {ps[k].extensions : k \in 1..Len(ps)}}

\* a watcher that goes on reporting after watcher.close() was called
Emits_AfterClose(w) == w.status # "none"

\* the chokidar watcher reports changes from the time it is ready until
\* watcher.close() is called
Emits(w) == w.status = "open"

\* the watcher after a path was added, changed or unlinked: an open watcher that
\* does not ignore the path has one more event to report
Seen(w, info) ==
    IF Emits(w) /\ ~ShouldIgnore(info, PluginExtensions(plugins))
    THEN [w EXCEPT !.pendingEvents = @ + 1]
    ELSE w

\* a file of the project is created, written or removed while it is watched
SourceChange(rel, new) ==
    /\ edits < MaxChanges
    /\ fs[rel] # new
    /\ fs' = [fs EXCEPT ![rel] = new]
    /\ edits' = edits + 1
    /\ watch' = Seen(watch, PathInfo[rel])
    /\ UNCHANGED <<tsConfig, cacheFile, indexFile, plugins, run, prev, builds>>
    /\ UNCHANGED <<ctlVars, diffRun>>

\* the tsconfig file is rewritten with another content while the project is watched
ConfigChange ==
    /\ edits < MaxChanges
    /\ tsConfig' \in Configs \ {tsConfig}
    /\ edits' = edits + 1
    /\ watch' = Seen(watch, ConfigFileInfo)
    /\ UNCHANGED <<fs, cacheFile, indexFile, plugins, run, prev, builds>>
    /\ UNCHANGED <<ctlVars, diffRun>>

\* watcher.ts:172-174: the watcher emits add, change or unlink and the handler calls
\* controller.scheduleRebuild
WatcherEvent ==
    /\ Emits(watch)
    /\ watch.pendingEvents > 0
    /\ watch' = [watch EXCEPT !.pendingEvents = @ - 1]
    /\ ScheduleRebuild
    /\ UNCHANGED <<buildVars, diffRun>>

\* watcher.ts:152-153: buildFn is invoked and calls onBuildStart, outside its try
\* block: when the observer throws, the promise of buildFn is rejected at once
Invoked(w, throws) == [w EXCEPT !.callbacks = <<"start">>, !.rejected = throws]

\* watcher.ts:154-160: buildFn calls further observers
Called(w, cbs) == [w EXCEPT !.callbacks = @ \o cbs]

\* watcher.ts:152-160: the promise of buildFn settles in the step in which
\* generateDocIndex returns or rejects, after onBuildComplete or onBuildError
BuildFnSettles ==
    IF run'.pc = "idle"
    THEN BuildSettle(IF run'.result = "ok" THEN "ok" ELSE "fail")
    ELSE UNCHANGED ctlVars

\* the observer buildFn calls when generateDocIndex has returned or rejected
ObserverOf(result) == IF result = "ok" THEN "complete" ELSE "error"

\* the timeout callback: runBuild invokes buildFn, which calls onBuildStart and
\* generateDocIndex (incremental by default), up to its first await
WatchTimerFire ==
    /\ TimerFire
    /\ BuildBegin(TRUE)
    /\ watch' = Invoked(watch, FALSE)
    /\ UNCHANGED diffRun

\* runBuild after its await: the queued build is started, or the controller goes idle
WatchBuildContinue ==
    /\ BuildContinue
    /\ IF RebuildNow(state)
       THEN BuildBegin(TRUE) /\ watch' = Invoked(watch, FALSE)
       ELSE UNCHANGED <<buildVars, watch>>
    /\ UNCHANGED diffRun

\* a step of the running generateDocIndex other than its last
WatchBuildStep ==
    /\ \/ DiffNative
       \/ ExtractNative
       \/ StoreNative
       \/ PluginBegin
       \/ ExtractPlugin
       \/ StorePlugin
       \/ Finish
    /\ BuildFnSettles
    /\ watch' = IF run'.pc = "idle" THEN Called(watch, <<ObserverOf(run'.result)>>) ELSE watch
    /\ UNCHANGED diffRun

\* index.json and cache.json are written, the watcher sees the output directory
\* change, generateDocIndex returns
WatchWriteDone ==
    /\ WriteDone
    /\ BuildFnSettles
    /\ watch' = Called(Seen(watch, OutputFileInfo(watch.outputDir)),
                       <<ObserverOf(run'.result)>>)
    /\ UNCHANGED diffRun

\* watcher.ts:183-184: close() calls watcher.close(), after which the watcher emits
\* nothing
CloseBegin ==
    /\ watch.status = "open"
    /\ watch' = [watch EXCEPT !.status = "closing", !.pendingEvents = 0]
    /\ UNCHANGED <<ctlVars, buildVars, diffRun>>

\* watcher.ts:185: watcher.close() has resolved and close() calls waitForIdle; the
\* promise of close() resolves when that of waitForIdle does
CloseWaitForIdle ==
    /\ watch.status = "closing"
    /\ WaitForIdle(1)
    /\ watch' = [watch EXCEPT !.status = "closed"]
    /\ UNCHANGED <<buildVars, diffRun>>

\* one clock tick passes while the project is watched
WatchTick == Tick /\ UNCHANGED <<buildVars, diffRun, watch>>

\* the manifest the initial build of watchAndRegenerate (watcher.ts:149) writes for
\* a tree and at most one plugin per extension
InitialManifest(disk, config, ps) ==
    LET claimed == PluginExtensions(ps)
        native == {r \in ListedPaths : /\ disk[r] # NoFile
                                        /\ ~IsExcluded(Abs(r))
                                        /\ ExtName(Abs(r)) \notin claimed}
        lists == FindAllPluginFiles(disk, ps)
        OwnerOf(rel) == CHOOSE k \in 1..Len(ps) : Abs(rel) \in Range(lists[k])
    IN [cacheVersion |-> CACHE_VERSION, indexVersion |-> indexVersion,
        tsConfigHash |-> HashContent(config), pluginNames |-> SortedNames(ps),
        files |-> [rel \in native \cup {f[2] : f \in Range(Flat(lists))} |->
                     [contentHash |-> HashContent(disk[rel].content),
                      symbols |-> IF rel \in native
                                  THEN ExtractFileSymbols(rel, disk[rel].content)
                                  ELSE PluginSymbols(ps[OwnerOf(rel)], Abs(rel), rel,
                                                     disk[rel].content),
                      mtimeMs |-> disk[rel].mtimeMs]]]

(***************************************************************************)
(* Specifications                                                          *)
(***************************************************************************)
\* the controller alone: its buildFn is an opaque build that ends ok or fails
NextCtl ==
    \/ ScheduleRebuild /\ UNCHANGED <<buildVars, diffRun, watch>>
    \/ TimerFire /\ UNCHANGED <<buildVars, diffRun, watch>>
    \/ \E outcome \in {"ok", "fail"} : BuildSettle(outcome) /\ UNCHANGED <<buildVars, diffRun, watch>>
    \/ BuildContinue /\ UNCHANGED <<buildVars, diffRun, watch>>
    \/ \E w \in Waiters : WaitForIdle(w) /\ UNCHANGED <<buildVars, diffRun, watch>>
    \/ Tick /\ UNCHANGED <<buildVars, diffRun, watch>>

InitCtlOnly ==
    /\ InitCtl
    /\ InitBuild
    /\ plugins = <<>>
    /\ cacheFile = NoFile

SpecCtl == InitCtlOnly /\ [][NextCtl]_vars

\* the timer fires once due, every build ends, every resumed runBuild runs
FairCtl == /\ WF_vars(Tick /\ UNCHANGED <<buildVars, diffRun, watch>>)
           /\ WF_vars(TimerFire /\ UNCHANGED <<buildVars, diffRun, watch>>)
           /\ WF_vars(\E outcome \in {"ok", "fail"} :
                         BuildSettle(outcome) /\ UNCHANGED <<buildVars, diffRun, watch>>)
           /\ WF_vars(BuildContinue /\ UNCHANGED <<buildVars, diffRun, watch>>)

LiveCtl == SpecCtl /\ FairCtl

\* generateDocIndex run after run; the files change between the runs
NextBuild ==
    \/ \E incremental \in BOOLEAN : BuildBegin(incremental) /\ UNCHANGED <<ctlVars, diffRun, watch>>
    \/ DiffNative /\ UNCHANGED <<ctlVars, diffRun, watch>>
    \/ ExtractNative /\ UNCHANGED <<ctlVars, diffRun, watch>>
    \/ StoreNative /\ UNCHANGED <<ctlVars, diffRun, watch>>
    \/ PluginBegin /\ UNCHANGED <<ctlVars, diffRun, watch>>
    \/ ExtractPlugin /\ UNCHANGED <<ctlVars, diffRun, watch>>
    \/ StorePlugin /\ UNCHANGED <<ctlVars, diffRun, watch>>
    \/ Finish /\ UNCHANGED <<ctlVars, diffRun, watch>>
    \/ WriteDone /\ UNCHANGED <<ctlVars, diffRun, watch>>
    \/ \E rel \in AllPaths, c \in Contents, m \in Mtimes :
          run.pc = "idle" /\ WriteFile(rel, c, m) /\ UNCHANGED <<ctlVars, diffRun, watch>>
    \/ \E rel \in AllPaths : run.pc = "idle" /\ RemoveFile(rel) /\ UNCHANGED <<ctlVars, diffRun, watch>>

InitBuildOnly ==
    /\ InitCtl
    /\ InitBuild

SpecBuild == InitBuildOnly /\ [][NextBuild]_vars

\* generateDocIndex with the files and the tsconfig changing at any moment, also
\* between the steps of a running build
NextRace ==
    \/ \E incremental \in BOOLEAN : BuildBegin(incremental) /\ UNCHANGED <<ctlVars, diffRun, watch>>
    \/ DiffNative /\ UNCHANGED <<ctlVars, diffRun, watch>>
    \/ ExtractNative /\ UNCHANGED <<ctlVars, diffRun, watch>>
    \/ StoreNative /\ UNCHANGED <<ctlVars, diffRun, watch>>
    \/ PluginBegin /\ UNCHANGED <<ctlVars, diffRun, watch>>
    \/ ExtractPlugin /\ UNCHANGED <<ctlVars, diffRun, watch>>
    \/ StorePlugin /\ UNCHANGED <<ctlVars, diffRun, watch>>
    \/ Finish /\ UNCHANGED <<ctlVars, diffRun, watch>>
    \/ WriteDone /\ UNCHANGED <<ctlVars, diffRun, watch>>
    \/ \E rel \in AllPaths, c \in Contents, m \in Mtimes :
          WriteFile(rel, c, m) /\ UNCHANGED <<ctlVars, diffRun, watch>>
    \/ \E rel \in AllPaths : RemoveFile(rel) /\ UNCHANGED <<ctlVars, diffRun, watch>>
    \/ ChangeConfig /\ UNCHANGED <<ctlVars, diffRun, watch>>

SpecRace == InitBuildOnly /\ [][NextRace]_vars

\* generateDocIndex with collaborators that may throw: the native extractor, a
\* plugin's init, a plugin's extraction, a plugin's dispose
NextFail ==
    \/ \E incremental \in BOOLEAN : BuildBegin(incremental) /\ UNCHANGED <<ctlVars, diffRun, watch>>
    \/ DiffNative /\ UNCHANGED <<ctlVars, diffRun, watch>>
    \/ ExtractNative /\ UNCHANGED <<ctlVars, diffRun, watch>>
    \/ StoreNative /\ UNCHANGED <<ctlVars, diffRun, watch>>
    \/ PluginBegin /\ UNCHANGED <<ctlVars, diffRun, watch>>
    \/ ExtractPlugin /\ UNCHANGED <<ctlVars, diffRun, watch>>
    \/ StorePlugin /\ UNCHANGED <<ctlVars, diffRun, watch>>
    \/ Finish /\ UNCHANGED <<ctlVars, diffRun, watch>>
    \/ WriteDone /\ UNCHANGED <<ctlVars, diffRun, watch>>
    \/ ExtractNativeThrows /\ UNCHANGED <<ctlVars, diffRun, watch>>
    \/ \E k \in 1..Len(plugins), d \in 0..Len(plugins) :
          PluginInitThrows(k, d) /\ UNCHANGED <<ctlVars, diffRun, watch>>
    \/ \E d \in 0..Len(plugins) : ExtractPluginThrows(d) /\ UNCHANGED <<ctlVars, diffRun, watch>>
    \/ \E d \in 1..Len(plugins) : DisposeThrows(d) /\ UNCHANGED <<ctlVars, diffRun, watch>>

InitFail ==
    /\ InitCtl
    /\ InitFiles(FailPluginLists, {NoFile})

SpecFail == InitFail /\ [][NextFail]_vars

\* generateDocIndex over whatever cache.json holds, the configuration file changing
\* between the runs
NextCache ==
    \/ \E incremental \in BOOLEAN : BuildBegin(incremental) /\ UNCHANGED <<ctlVars, diffRun, watch>>
    \/ DiffNative /\ UNCHANGED <<ctlVars, diffRun, watch>>
    \/ ExtractNative /\ UNCHANGED <<ctlVars, diffRun, watch>>
    \/ StoreNative /\ UNCHANGED <<ctlVars, diffRun, watch>>
    \/ PluginBegin /\ UNCHANGED <<ctlVars, diffRun, watch>>
    \/ ExtractPlugin /\ UNCHANGED <<ctlVars, diffRun, watch>>
    \/ StorePlugin /\ UNCHANGED <<ctlVars, diffRun, watch>>
    \/ Finish /\ UNCHANGED <<ctlVars, diffRun, watch>>
    \/ WriteDone /\ UNCHANGED <<ctlVars, diffRun, watch>>
    \/ run.pc = "idle" /\ ChangeConfig /\ UNCHANGED <<ctlVars, diffRun, watch>>

InitCache ==
    /\ InitCtl
    /\ InitFiles(PluginLists,
                 StaleCaches(plugins) \cup DamagedCaches(plugins) \cup {GoodCache(plugins)})

SpecCache == InitCache /\ [][NextCache]_vars

\* the plugin lists of the builds over the whole tree
TreePluginLists ==
    {<<>>, <<PluginA>>, <<PluginV>>, <<PluginA, PluginT>>, <<PluginT, PluginA>>}

\* generateDocIndex over a tree that also holds vendor, build-output, declaration
\* and output-directory files and a .tsx file, with small batch sizes
NextTree ==
    \/ \E incremental \in BOOLEAN, batchSize \in 1..MaxBatch :
          BuildBeginWith(incremental, batchSize) /\ UNCHANGED <<ctlVars, diffRun, watch>>
    \/ DiffNative /\ UNCHANGED <<ctlVars, diffRun, watch>>
    \/ ExtractNative /\ UNCHANGED <<ctlVars, diffRun, watch>>
    \/ StoreNative /\ UNCHANGED <<ctlVars, diffRun, watch>>
    \/ PluginBegin /\ UNCHANGED <<ctlVars, diffRun, watch>>
    \/ ExtractPlugin /\ UNCHANGED <<ctlVars, diffRun, watch>>
    \/ StorePlugin /\ UNCHANGED <<ctlVars, diffRun, watch>>
    \/ Finish /\ UNCHANGED <<ctlVars, diffRun, watch>>
    \/ WriteDone /\ UNCHANGED <<ctlVars, diffRun, watch>>

InitTreeOnly ==
    /\ InitCtl
    /\ InitTree(TreePaths, TreePluginLists, {NoFile})

SpecTree == InitTreeOnly /\ [][NextTree]_vars

\* the same builds with plugins whose init or dispose may throw, also when a batch
\* boundary disposes and initializes them again
NextReinit ==
    \/ \E incremental \in BOOLEAN, batchSize \in 1..MaxBatch :
          BuildBeginWith(incremental, batchSize) /\ UNCHANGED <<ctlVars, diffRun, watch>>
    \/ DiffNative /\ UNCHANGED <<ctlVars, diffRun, watch>>
    \/ ExtractNative /\ UNCHANGED <<ctlVars, diffRun, watch>>
    \/ StoreNative /\ UNCHANGED <<ctlVars, diffRun, watch>>
    \/ PluginBegin /\ UNCHANGED <<ctlVars, diffRun, watch>>
    \/ ExtractPlugin /\ UNCHANGED <<ctlVars, diffRun, watch>>
    \/ StorePlugin /\ UNCHANGED <<ctlVars, diffRun, watch>>
    \/ Finish /\ UNCHANGED <<ctlVars, diffRun, watch>>
    \/ WriteDone /\ UNCHANGED <<ctlVars, diffRun, watch>>
    \/ \E k \in 1..Len(plugins), d \in 0..Len(plugins) :
          PluginInitThrows(k, d) /\ UNCHANGED <<ctlVars, diffRun, watch>>
    \/ \E d \in 1..Len(plugins) : DisposeThrows(d) /\ UNCHANGED <<ctlVars, diffRun, watch>>
    \/ \E d \in 1..Len(plugins), f \in 0..Len(plugins) :
          BoundaryDisposeThrows(d, f) /\ UNCHANGED <<ctlVars, diffRun, watch>>
    \/ \E k \in 1..Len(plugins), f \in 0..Len(plugins) :
          BoundaryInitThrows(k, f) /\ UNCHANGED <<ctlVars, diffRun, watch>>

SpecReinit == InitTreeOnly /\ [][NextReinit]_vars

\* how a cached file is found on the disk: as it was cached, written again with the
\* same content, written with another content, or not at all
FileKinds == {"same", "touched", "edited", "gone"}
OnDisk(kind) ==
    CASE kind = "same" -> [content |-> 1, mtimeMs |-> 1]
      [] kind = "touched" -> [content |-> 1, mtimeMs |-> 2]
      [] kind = "edited" -> [content |-> 2, mtimeMs |-> 2]
      [] kind = "gone" -> NoFile

\* the numbers of cached files the call is made with: none, and around the size of
\* one batch
DiffSizes == {0} \cup (BATCH_CONCURRENCY - 1)..(BATCH_CONCURRENCY + MaxExtra)
\* the files whose state on the disk varies: the first and the last of the first
\* batch and the first of the second
Marked == {1, BATCH_CONCURRENCY, BATCH_CONCURRENCY + 1}

\* a manifest with an entry for each of the files 1..n, and for a file that is no
\* longer listed when stale is set
DiffCache(n, stale) ==
    [cacheVersion |-> CACHE_VERSION, indexVersion |-> indexVersion,
     tsConfigHash |-> HashContent(1), pluginNames |-> <<>>,
     files |-> [rel \in 1..n \cup (IF stale THEN {n + 2} ELSE {}) |->
                  [contentHash |-> HashContent(1), symbols |-> <<>>, mtimeMs |-> 1]]]

\* computeDiff is called on a tree of n cached files, with or without a file that
\* has no entry, with a manifest or with null
InitDiff ==
    /\ InitCtl
    /\ watch = NoWatcher
    /\ InitProject({<<>>}, {NoFile})
    /\ \E n \in DiffSizes, fresh \in BOOLEAN, stale \in BOOLEAN, cached \in BOOLEAN :
       \E kinds \in [Marked \cap 1..n -> FileKinds] :
          /\ fs = [rel \in 1..(n + 2) |->
                     IF rel \in DOMAIN kinds THEN OnDisk(kinds[rel])
                     ELSE IF rel = n + 2 THEN NoFile
                     ELSE [content |-> 1, mtimeMs |-> 1]]
          /\ diffRun = DiffCall((IF fresh THEN <<Abs(n + 1)>> ELSE <<>>)
                                   \o [k \in 1..n |-> Abs(k)],
                                 IF cached THEN DiffCache(n, stale) ELSE NoCache)

NextDiff ==
    \/ DiffEnter
    \/ BatchStart
    \/ OpSettle
    \/ OpRejects
    \/ BatchMerge
    \/ DiffReturn

SpecDiff == InitDiff /\ [][NextDiff]_vars

(***************************************************************************)
(* Build Controller: properties                                            *)
(***************************************************************************)
\* a step that invokes buildFn
BuildStarts == inFlight' = inFlight + 1
\* a step in which the timeout callback runs
TimerFires == debounceTimer = 0 /\ debounceTimer' = NoTimer
\* a step in which a runBuild activation runs its completion check
CompletionCheck == awaiting' = awaiting - 1
\* a step in which waiter w calls waitForIdle
CallsWaitForIdle(w) == promise[w] = "none" /\ promise'[w] # "none"
\* a step in which the resolve function of waiter w is called
ResolvesWaiter(w) == resolveCalls'[w] > resolveCalls[w]

\* C1: whatever the interleaving of scheduleRebuild calls, timer firings and build
\* completions (fulfilled or rejected), at most one buildFn invocation is in progress.
C1_SingleFlight == inFlight <= 1
\* a build is running, a change is queued behind it, and an earlier build has failed
C1_Witness == inFlight = 1 /\ state = "build_queued" /\ lastOutcome = "fail"

\* C2: every scheduleRebuild call is eventually followed by a buildFn invocation that
\* starts after the call (the timer fires, every build terminates).
C2_NoChangeDropped == pendingCall ~> ~pendingCall
\* a call made while a build was already queued has been answered by the queued build
C2_Witness == startedBy = "queue" /\ served >= 2 /\ ~pendingCall /\ inFlight = 1

\* C3: N >= 1 scheduleRebuild calls made in idle start exactly one build: the timer
\* starts a build only in idle, only once debounceMs have elapsed since the last call,
\* no build starts without a call made since the previous build start, and the build
\* of a burst does start.
C3_Debounce ==
    /\ [][TimerFires => state = "idle" /\ burst >= 1 /\ sinceCall = debounceMs]_vars
    /\ [][BuildStarts => pendingCall]_vars
    /\ (burst >= 1) ~> (burst = 0)
\* the timer has started the one build of a burst of three calls
C3_Witness == startedBy = "timer" /\ served = 3 /\ inFlight = 1 /\ calls = 3

\* C4: when calls arrived during a build, its completion starts exactly one more build
\* at once (no timer is set), however many calls they were, and the same check follows
\* that build; the controller goes back to idle only after a build with no call.
C4_QueuedRebuild ==
    /\ [][CompletionCheck =>
            IF callsDuringBuild >= 1
            THEN /\ state' = "building" /\ BuildStarts
                 /\ debounceTimer' = NoTimer /\ callsDuringBuild' = 0
            ELSE state' = "idle" /\ inFlight' = inFlight]_vars
    /\ [][state # "idle" /\ state' = "idle" => callsDuringBuild = 0 /\ inFlight = 0]_vars
    /\ [](state = "build_queued" <=> (state # "idle" /\ callsDuringBuild >= 1))
\* one build answered two calls that arrived during its predecessor, and is itself
\* followed by a queued one
C4_Witness == startedBy = "queue" /\ served = 2 /\ state = "build_queued" /\ inFlight = 1

\* C5: waitForIdle returns an already-resolved promise exactly when the state is idle
\* and no timer is pending; otherwise its resolve function is called once, in a step
\* that leaves the state idle with no timer pending and no build in flight or resumed,
\* and it is called eventually.
C5_WaitForIdle ==
    /\ [][\A w \in Waiters : CallsWaitForIdle(w) =>
            (promise'[w] = "immediate" <=> (state = "idle" /\ debounceTimer = NoTimer))]_vars
    /\ [][\A w \in Waiters : ResolvesWaiter(w) =>
            /\ promise[w] = "pending" /\ promise'[w] = "resolved"
            /\ state' = "idle" /\ debounceTimer' = NoTimer
            /\ inFlight' = 0 /\ awaiting' = 0
            /\ ~pendingCall']_vars
    /\ [](\A w \in Waiters : /\ resolveCalls[w] <= 1
                             /\ promise[w] = "resolved" <=> resolveCalls[w] = 1)
    /\ \A w \in Waiters : (promise[w] = "pending") ~> (promise[w] = "resolved")
\* a waiter that came during the debounce window and one that came during the build
\* have both been resolved after the queued build
C5_Witness ==
    /\ promise = [w \in Waiters |-> "resolved"]
    /\ startedBy = "queue" /\ state = "idle"

Diffs ==
    (IF run.cache # NoCache /\ run.diskAtTsDiff # <<>>
     THEN {[diff |-> run.tsDiff, disk |-> run.diskAtTsDiff, files |-> run.tsFiles]}
     ELSE {})
    \cup
    (IF run.cache # NoCache /\ run.diskAtPluginDiff # <<>>
     THEN {[diff |-> run.pluginDiff, disk |-> run.diskAtPluginDiff,
            files |-> Flat(FindAllPluginFiles(run.diskAtPluginDiff, plugins))]}
     ELSE {})
\* the current files of a diff that have a cache entry
CachedFiles(d) == {f \in Range(d.files) : f[2] \in DOMAIN run.cache.files}
\* the live content hash is not the cached contentHash
HashDiffers(d, f) == HashFileContents(d.disk, f) # run.cache.files[f[2]].contentHash
\* the live modification time against the cached entry's mtimeMs
MtimeState(d, f) ==
    IF run.cache.files[f[2]].mtimeMs = NoMtime THEN "missing"
    ELSE IF run.cache.files[f[2]].mtimeMs = d.disk[f[2]].mtimeMs THEN "equal"
    ELSE "differs"
\* the running (or last) generateDocIndex ran an extractor on the file
ReExtracted(rel) == \E k \in 1..Len(run.extracted) : run.extracted[k][2] = rel
\* a snapshot without its generation timestamp
SansGeneratedAt(docIndex) == [docIndex EXCEPT !.generatedAt = 0]
\* the last two generateDocIndex runs were incremental, both returned, and no file was
\* written or removed since the first of them began
TwoRunsNoChange ==
    /\ run.pc = "idle" /\ run.result = "ok" /\ run.incremental
    /\ prev.result = "ok" /\ prev.incremental
    /\ run.editsAtBegin = prev.editsAtBegin

\* C7: two consecutive generateDocIndex runs with no file, configuration or plugin
\* change in between (the second incremental over the cache the first wrote) return
\* snapshots equal except for generatedAt, for any file set and any plugin list.
C7_Idempotent ==
    TwoRunsNoChange => SansGeneratedAt(run.returned) = SansGeneratedAt(prev.returned)

\* the same, for plugin lists in which no two plugins claim the same extension
C7_IdempotentNoSharedExtension ==
    (TwoRunsNoChange /\ Len(plugins) <= 1)
        => SansGeneratedAt(run.returned) = SansGeneratedAt(prev.returned)

\* C8 as stated: computeDiff classifies as changed every cached current file whose
\* content hash differs from the cached contentHash, whether the live modification
\* time equals, differs from or is missing from the cached entry, and the rebuild
\* re-extracts the file.
C8_ChangedRegardlessOfMtime ==
    \A d \in Diffs : \A f \in CachedFiles(d) :
        HashDiffers(d, f)
            => /\ f \in Range(d.diff.changed)
               /\ run.result = "ok" => ReExtracted(f[2])

\* C8 amended: computeDiff classifies as changed every cached current file whose
\* content hash differs from the cached contentHash when the live modification time
\* differs from or is missing from the cached entry, and the rebuild re-extracts it.
C8_ChangedUnlessMtimeEqual ==
    \A d \in Diffs : \A f \in CachedFiles(d) :
        (HashDiffers(d, f) /\ MtimeState(d, f) # "equal")
            => /\ f \in Range(d.diff.changed)
               /\ f \notin Range(d.diff.unchanged)
               /\ run.result = "ok" => ReExtracted(f[2])

\* a finished rebuild that re-extracted a cached file whose content and modification
\* time both changed, and only that file
C8_Witness ==
    /\ run.pc = "idle" /\ run.result = "ok"
    /\ \E d \in Diffs : \E f \in CachedFiles(d) :
          /\ HashDiffers(d, f) /\ MtimeState(d, f) = "differs"
          /\ f \in Range(d.diff.changed)
          /\ \A k \in 1..Len(run.extracted) : run.extracted[k][2] = f[2]
          /\ \E g \in CachedFiles(d) : g # f

\* C9: a cached file whose cached mtimeMs is present and equal to the live mtimeMs is
\* classified unchanged without hashing: hashes has no entry for it and mtimes records
\* the live timestamp.
C9_FastPath ==
    \A d \in Diffs : \A f \in CachedFiles(d) :
        MtimeState(d, f) = "equal"
            => /\ f \in Range(d.diff.unchanged)
               /\ f \notin Range(d.diff.changed)
               /\ f \notin DOMAIN d.diff.hashes
               /\ f \in DOMAIN d.diff.mtimes
               /\ d.diff.mtimes[f] = d.disk[f[2]].mtimeMs

\* a diff that took the fast path for one file and hashed another
C9_Witness ==
    \E d \in Diffs : \E f, g \in CachedFiles(d) :
        /\ MtimeState(d, f) = "equal"
        /\ f \in Range(d.diff.unchanged)
        /\ g \in DOMAIN d.diff.hashes

\* C10: a cached file whose modification time changed, or whose cached entry has no
\* mtimeMs, but whose content hash equals the cached contentHash is classified
\* unchanged, is not re-extracted, and the next cache manifest holds the same
\* contentHash and symbols with mtimeMs set to the live timestamp.
C10_HashFallback ==
    \A d \in Diffs : \A f \in CachedFiles(d) :
        (MtimeState(d, f) # "equal" /\ ~HashDiffers(d, f))
            => /\ f \in Range(d.diff.unchanged)
               /\ f \notin Range(d.diff.changed)
               /\ ~ReExtracted(f[2])
               /\ (run.pc = "idle" /\ run.result = "ok")
                     => /\ f[2] \in DOMAIN cacheFile.files
                        /\ cacheFile.files[f[2]] =
                              [contentHash |-> run.cache.files[f[2]].contentHash,
                               symbols |-> run.cache.files[f[2]].symbols,
                               mtimeMs |-> d.disk[f[2]].mtimeMs]

\* a finished rebuild that carried forward a file touched without a content change
C10_Witness ==
    /\ run.pc = "idle" /\ run.result = "ok"
    /\ \E d \in Diffs : \E f \in CachedFiles(d) :
          /\ MtimeState(d, f) = "differs" /\ ~HashDiffers(d, f)
          /\ cacheFile.files[f[2]].mtimeMs = d.disk[f[2]].mtimeMs
          /\ cacheFile.files[f[2]].symbols # <<>>

\* the old-cache case of C10 is reachable as well
C10_LegacyReached ==
    /\ run.pc = "idle" /\ run.result = "ok"
    /\ \E d \in Diffs : \E f \in CachedFiles(d) :
          MtimeState(d, f) = "missing" /\ ~HashDiffers(d, f)

\* the symbols of a snapshot that belong to one file, in snapshot order
SymbolsOfFile(symbols, rel) == SelectSeq(symbols, LAMBDA sym : sym.filePath = rel)
\* the current file set of the running (or last) build: the native list and, once
\* the walk has run, the plugin buckets
CurrentFileSet ==
    {run.tsFiles[k][2] : k \in 1..Len(run.tsFiles)}
    \cup (IF Len(plugins) > 0 /\ run.diskAtPluginDiff # <<>>
          THEN {f[2] : f \in Range(Flat(FindAllPluginFiles(run.diskAtPluginDiff, plugins)))}
          ELSE {})
\* the last generateDocIndex returned
BuildOk == run.pc = "idle" /\ run.result = "ok"
\* the native files the running (or last) build ran the extractor on, in order
NativeExtracted ==
    LET native == SelectSeq(run.extracted, LAMBDA e : e[1] = 0)
    IN [k \in 1..Len(native) |-> native[k][2]]

\* C11: a file that is absent from the current file set (native list and plugin
\* buckets), in particular one that had an entry in the previous cache, has no symbols
\* in the next snapshot and no entry in the next cache manifest.
C11_DeletionPropagates ==
    BuildOk =>
        \A rel \in AllPaths \ CurrentFileSet :
            /\ SymbolsOfFile(run.returned.symbols, rel) = <<>>
            /\ run.incremental => rel \notin DOMAIN cacheFile.files

\* an incremental build over a cache that held an entry, with symbols, for a file
\* that is gone now
C11_Witness ==
    /\ BuildOk /\ run.cache # NoCache
    /\ \E rel \in DOMAIN run.cache.files :
          /\ rel \notin CurrentFileSet
          /\ run.cache.files[rel].symbols # <<>>
          /\ rel \notin DOMAIN cacheFile.files
    /\ run.returned.symbols # <<>>

SymbolsFrom(rel, c) ==
    IF rel \in {run.tsFiles[k][2] : k \in 1..Len(run.tsFiles)}
       \/ \A k \in 1..Len(plugins) : ExtName(Abs(rel)) \notin plugins[k].extensions
    THEN ExtractFileSymbols(rel, c)
    ELSE Flat([k \in 1..Len(plugins) |->
                 IF ExtName(Abs(rel)) \in plugins[k].extensions
                 THEN PluginSymbols(plugins[k], Abs(rel), rel, c)
                 ELSE <<>>])

\* C13: in every cache manifest written, each entry's contentHash is the hash of
\* the bytes its symbols were extracted from, whatever the interleaving of file
\* modifications with the build's steps. (The modelled extractors are injective in
\* the content, so the bytes behind an entry's symbols are those that reproduce them.)
C13_HashOfExtractedBytes ==
    cacheFile \notin {NoFile, Truncated} =>
        \A rel \in DOMAIN cacheFile.files :
            \E c \in Contents :
                /\ cacheFile.files[rel].contentHash = HashContent(c)
                /\ cacheFile.files[rel].symbols = SymbolsFrom(rel, c)

\* C14: a reader of the snapshot file obtains, at any moment, the complete previous
\* snapshot or the complete new one, never an empty or partially written file. (What
\* a read obtains is the file as it is on disk at that moment.)
C14_AtomicReplace == indexFile # Truncated

(***************************************************************************)
(* generateDocIndex with throwing collaborators: properties                *)
(***************************************************************************)
\* C15: if the native extractor, a plugin's init or a plugin's per-file extraction
\* throws, generateDocIndex rejects and the snapshot and the cache manifest on disk
\* are those of before the build.
C15_FailureLeavesArtifacts ==
    run.threw \in {"extractor", "init", "extract"} =>
        /\ run.pc = "idle" /\ run.result = "error" /\ run.returned = NoFile
        /\ indexFile = run.indexAtBegin
        /\ cacheFile = run.cacheAtBegin

\* a plugin's extraction threw in a build that found a snapshot and a manifest of
\* an earlier build on disk
C15_Witness ==
    /\ run.threw = "extract" /\ run.result = "error"
    /\ run.indexAtBegin \notin {NoFile, Truncated} /\ indexFile = run.indexAtBegin
    /\ run.cacheAtBegin \notin {NoFile, Truncated} /\ cacheFile = run.cacheAtBegin

\* C16: whenever a build that initialized at least one plugin ends, successfully or
\* by an error in a later step, every plugin that was initialized has had its dispose
\* called, in initialization order.
C16_DisposeAllInitialized ==
    (run.pc = "idle" /\ run.result \in {"ok", "error"} /\ Len(run.initialized) > 0)
        => run.disposed = run.initialized

\* the same, for builds in which no dispose throws
C16_DisposeAllUnlessDisposeThrows ==
    (run.pc = "idle" /\ run.result \in {"ok", "error"} /\ Len(run.initialized) > 0
        /\ Len(run.disposed) < Len(run.initialized))
        => /\ run.result = "error"
           /\ \E d \in 1..Len(run.initialized) : run.disposed = SubSeq(run.initialized, 1, d)

\* C17: if the init of plugin k throws, exactly the plugins 1..k-1 are disposed,
\* plugin k and the later ones are neither initialized nor disposed, and no
\* plugin-claimed file is processed.
C17_InitFailure ==
    run.threw = "init" =>
        /\ run.initialized = [j \in 1..(run.failedInit - 1) |-> j]
        /\ run.disposed = [j \in 1..(run.failedInit - 1) |-> j]
        /\ \A e \in Range(run.extracted) : e[1] = 0
        /\ run.pluginDiff = NoDiff

\* the part of C17 that does not depend on the disposes succeeding
C17_InitFailureNothingLater ==
    run.threw = "init" =>
        /\ run.initialized = [j \in 1..(run.failedInit - 1) |-> j]
        /\ \A j \in Range(run.disposed) : j < run.failedInit
        /\ \A e \in Range(run.extracted) : e[1] = 0
        /\ run.pluginDiff = NoDiff

(***************************************************************************)
(* loadCache and the cache file: properties                                *)
(***************************************************************************)
\* the symbols of a build from scratch over a tree: every native file, then every
\* file of every plugin's bucket, sorted by id
FullRebuild(disk, ps) ==
    LET claimed == {ToLowerCase(ext) : ext \in UNION {ps[k].extensions : k \in 1..Len(ps)}}
        native == SeqOfSet({r \in ListedPaths : /\ disk[r] # NoFile
                                                 /\ ~IsExcluded(Abs(r))
                                                 /\ ExtName(Abs(r)) \notin claimed})
        lists == FindAllPluginFiles(disk, ps)
        work == PluginWork(lists, Range(Flat(lists)))
    IN SortById(
         Flat([k \in 1..Len(native) |->
                 ExtractFileSymbols(native[k], disk[native[k]].content)])
         \o Flat([k \in 1..Len(work) |->
                    PluginSymbols(ps[work[k][1]], work[k][2], work[k][2][2],
                                  disk[work[k][2][2]].content)]))

\* C18: loadCache returns a manifest only if the file parses with a well-typed
\* envelope, cacheVersion and indexVersion are the expected ones, the stored plugin
\* names are the sorted expected names and the stored tsConfigHash is the hash of
\* the live configuration file; what it returns is the whole manifest or nothing.
C18_LoadCacheAllOrNothing ==
    (run.incremental /\ run.cache # NoCache) =>
        /\ run.cacheAtBegin \notin {NoFile, Truncated, NotJson}
        /\ {"cacheVersion", "indexVersion", "tsConfigHash", "pluginNames", "files"}
              \subseteq DOMAIN run.cacheAtBegin
        /\ run.cacheAtBegin.files # NotAnObject
        /\ run.cacheAtBegin.cacheVersion = CACHE_VERSION
        /\ run.cacheAtBegin.indexVersion = indexVersion
        /\ run.cacheAtBegin.pluginNames = SortedNames(plugins)
        /\ run.cacheAtBegin.tsConfigHash = HashContent(run.configAtBegin)
        /\ run.cache = run.cacheAtBegin
        /\ run.tsConfigHash = HashContent(run.configAtBegin)

\* a build that loaded the manifest of the previous build
C18_Witness ==
    /\ run.incremental /\ run.cache # NoCache
    /\ run.cache = run.cacheAtBegin
    /\ prev.result = "ok" /\ prev.incremental
    /\ Len(plugins) = 2

\* the build began with a cache.json that is corrupt, stale or has entries of the
\* wrong shape
CorruptAtBegin ==
    /\ run.pc = "idle" /\ run.result \in {"ok", "error"}
    /\ run.incremental
    /\ run.configAtBegin = 1
    /\ run.cacheAtBegin \in StaleCaches(plugins) \cup DamagedCaches(plugins)

\* C19: a corrupt or stale cache file, also one with a well-typed envelope and file
\* entries of the wrong shape, never makes generateDocIndex throw and never changes
\* its snapshot: the build is a full rebuild, as with no cache.
C19_CorruptCacheIsSoft ==
    CorruptAtBegin =>
        /\ run.result = "ok"
        /\ run.returned.symbols = FullRebuild(fs, plugins)

\* the same, for the cache files loadCache rejects
C19_RejectedCacheIsSoft ==
    (CorruptAtBegin /\ run.cacheAtBegin \in StaleCaches(plugins)) =>
        /\ run.result = "ok"
        /\ run.cache = NoCache
        /\ run.returned.symbols = FullRebuild(fs, plugins)

\* the build began, incremental, with a cache.json whose tsConfigHash is not the
\* hash of the configuration file
ConfigChanged ==
    /\ run.incremental
    /\ Parses(run.cacheAtBegin) /\ run.cacheAtBegin # NoFile
    /\ IsValidCacheEnvelope(run.cacheAtBegin)
    /\ run.cacheAtBegin.tsConfigHash # HashContent(run.configAtBegin)

\* C20: if the configuration file's content changed between two builds, the next
\* build loads no cache and classifies every current file as changed, re-extracting
\* each, though no source file's fingerprint changed.
C20_ConfigChangeInvalidates ==
    ConfigChanged =>
        /\ run.cache = NoCache
        /\ run.diskAtTsDiff # <<>> =>
              run.tsDiff.changed = run.tsFiles /\ run.tsDiff.unchanged = <<>>
        /\ run.diskAtPluginDiff # <<>> =>
              /\ run.pluginDiff.changed
                    = Flat(FindAllPluginFiles(run.diskAtPluginDiff, plugins))
              /\ run.pluginDiff.unchanged = <<>>
        /\ BuildOk => \A rel \in CurrentFileSet : ReExtracted(rel)

\* a build after an incremental build and a change of the configuration file only:
\* every file has its cache entry with the fingerprint it still has, and every file
\* was extracted again
C20_Witness ==
    /\ BuildOk /\ ConfigChanged
    /\ prev.result = "ok" /\ prev.incremental
    /\ run.cacheAtBegin.pluginNames = SortedNames(plugins)
    /\ CurrentFileSet = AllPaths
    /\ \A rel \in CurrentFileSet :
          /\ rel \in DOMAIN run.cacheAtBegin.files
          /\ run.cacheAtBegin.files[rel].contentHash = HashContent(fs[rel].content)
          /\ ReExtracted(rel)

(***************************************************************************)
(* computeDiff: the partition of the current files                         *)
(***************************************************************************)
\* every computeDiff call of the running (or last) generateDocIndex: its result, its
\* currentFiles argument, its cache argument and the disk it ran on
DiffCalls ==
    (IF run.diskAtTsDiff # <<>>
     THEN {[diff |-> run.tsDiff, disk |-> run.diskAtTsDiff, files |-> run.tsFiles,
            cache |-> run.cache]}
     ELSE {})
    \cup
    (IF run.diskAtPluginDiff # <<>>
     THEN {[diff |-> run.pluginDiff, disk |-> run.diskAtPluginDiff,
            files |-> Flat(FindAllPluginFiles(run.diskAtPluginDiff, plugins)),
            cache |-> run.cache]}
     ELSE {})
\* how many times x occurs in a list
Count(seq, x) == Cardinality({k \in 1..Len(seq) : seq[k] = x})
\* the relative paths the cache knows
CacheKnown(cache) == IF cache = NoCache THEN {} ELSE DOMAIN cache.files

\* C21: for every computeDiff call, changed and unchanged are disjoint and together
\* hold exactly the current paths, each current path in exactly one of them and once,
\* and deleted is exactly the set of cache-known relative paths that no current path
\* corresponds to.
C21_DiffPartition ==
    \A c \in DiffCalls :
        /\ Range(c.diff.changed) \cap Range(c.diff.unchanged) = {}
        /\ Range(c.diff.changed) \cup Range(c.diff.unchanged) = Range(c.files)
        /\ \A f \in Range(c.files) :
              Count(c.diff.changed, f) + Count(c.diff.unchanged, f) = 1
        /\ c.diff.deleted
              = CacheKnown(c.cache)
                  \ {ToRelativePosixPath(f, ProjectRoot) : f \in Range(c.files)}

\* the same with each current path as many times in changed or unchanged as it is in
\* the currentFiles argument
C21_DiffPartitionOfList ==
    \A c \in DiffCalls :
        /\ Range(c.diff.changed) \cap Range(c.diff.unchanged) = {}
        /\ Range(c.diff.changed) \cup Range(c.diff.unchanged) = Range(c.files)
        /\ \A f \in Range(c.files) :
              Count(c.diff.changed, f) + Count(c.diff.unchanged, f) = Count(c.files, f)
        /\ c.diff.deleted
              = CacheKnown(c.cache)
                  \ {ToRelativePosixPath(f, ProjectRoot) : f \in Range(c.files)}

\* C22: with no cache, computeDiff puts every current path in changed, leaves
\* unchanged and deleted empty and neither hashes nor stats (hashes and mtimes are
\* empty); with a cache, a current path that has no cache entry is put in changed
\* without being hashed.
C22_NoCacheNoFingerprint ==
    \A c \in DiffCalls :
        /\ c.cache = NoCache =>
              /\ c.diff.changed = c.files
              /\ c.diff.unchanged = <<>>
              /\ c.diff.deleted = {}
              /\ c.diff.hashes = EmptyMap
              /\ c.diff.mtimes = EmptyMap
        /\ c.cache # NoCache =>
              \A f \in Range(c.files) :
                  ToRelativePosixPath(f, ProjectRoot) \notin DOMAIN c.cache.files
                      => /\ f \in Range(c.diff.changed)
                         /\ f \notin Range(c.diff.unchanged)
                         /\ f \notin DOMAIN c.diff.hashes

\* a finished build over a loaded cache in which a current file had no cache entry,
\* next to files that had one and were stat'd
C22_Witness ==
    /\ BuildOk /\ run.cache # NoCache
    /\ \E c \in DiffCalls : \E f \in Range(c.files) :
          /\ f[2] \notin DOMAIN c.cache.files
          /\ f \in Range(c.diff.changed)
          /\ ReExtracted(f[2])
    /\ \E c \in DiffCalls : c.diff.mtimes # EmptyMap

\* a finished build without a cache that had files to classify
C22_WitnessNoCache ==
    /\ BuildOk /\ run.cache = NoCache
    /\ \A c \in DiffCalls : c.diff.changed = c.files
    /\ \E c \in DiffCalls : Len(c.files) > 1

(***************************************************************************)
(* Incremental against full builds; the order of the snapshot              *)
(***************************************************************************)
\* a generateDocIndex has begun
BuildBegun == run.pc # "idle" \/ run.result # "none"

\* C23: for the same file tree, configuration and plugins, a build with incremental
\* enabled, over whatever valid cache an earlier build left, returns the same
\* snapshot apart from generatedAt as a build with incremental disabled; a build
\* with incremental disabled neither reads nor writes the cache file.
C23_IncrementalEqualsFull ==
    /\ (BuildOk /\ edits = run.editsAtBegin) =>
          SansGeneratedAt(run.returned)
             = [version |-> indexVersion, generatedAt |-> 0, projectRoot |-> ProjectRoot,
                symbols |-> FullRebuild(fs, plugins)]
    /\ (BuildBegun /\ ~run.incremental) =>
          /\ run.cache = NoCache
          /\ cacheFile = run.cacheAtBegin

\* the part on builds with incremental disabled: they return the snapshot of the
\* tree as it is, and leave the cache file alone
C23_FullBuildSkipsCache ==
    /\ (BuildOk /\ edits = run.editsAtBegin /\ ~run.incremental) =>
          SansGeneratedAt(run.returned)
             = [version |-> indexVersion, generatedAt |-> 0, projectRoot |-> ProjectRoot,
                symbols |-> FullRebuild(fs, plugins)]
    /\ (BuildBegun /\ ~run.incremental) =>
          /\ run.cache = NoCache
          /\ cacheFile = run.cacheAtBegin

\* the incremental part, for plugin lists in which no two plugins claim the same
\* extension and trees in which no file was rewritten with its modification time kept
C23_IncrementalEqualsFullOtherwise ==
    (BuildOk /\ edits = run.editsAtBegin /\ run.incremental /\ Len(plugins) <= 1
       /\ \A d \in Diffs : \A f \in CachedFiles(d) : MtimeState(d, f) # "equal"
                                                      \/ ~HashDiffers(d, f))
        => run.returned.symbols = FullRebuild(fs, plugins)

\* no symbol comes before one with a smaller id
SortedById(syms) ==
    \A i \in 1..Len(syms) : \A j \in 1..Len(syms) :
        i < j => ~IdLess(syms[j].id, syms[i].id)
\* the snapshots there are: the one the build returns and the one in index.json
Snapshots == {run.returned, indexFile} \ {NoFile, Truncated}

\* C25: the symbols of every snapshot a build returns and writes are in non-decreasing
\* order of id, whatever mix of carried-forward, native-extracted and plugin-produced
\* records it holds.
C25_SortedById == \A snapshot \in Snapshots : SortedById(snapshot.symbols)

\* a finished incremental build whose symbols were collected out of order: those of
\* a carried-forward file first, those of a re-extracted file with smaller ids after
\* them, and plugin-produced ones
C25_Witness ==
    /\ BuildOk /\ run.cache # NoCache
    /\ ~SortedById(run.allSymbols)
    /\ indexFile = run.returned
    /\ Len(run.tsDiff.unchanged) > 0
    /\ \E k \in 1..Len(run.extracted) : run.extracted[k][1] = 0
    /\ \E k \in 1..Len(run.returned.symbols) : run.returned.symbols[k].filePath \in PluginPaths

(***************************************************************************)
(* Progress, order of the steps, batches                                   *)
(***************************************************************************)
Phases == {"indexing", "plugins"}
\* an event of the native phase, or of the plugin phase
InPhase(ev, phase) == IF phase = "indexing" THEN ev.k = 0 ELSE ev.k > 0
\* the onProgress calls of a phase, in order
Progress(phase) ==
    SelectSeq(run.events, LAMBDA ev : ev.e = "progress" /\ InPhase(ev, phase))
\* the extractions of a phase, in order
Extractions(phase) ==
    SelectSeq(run.events, LAMBDA ev : ev.e = "extract" /\ InPhase(ev, phase))
\* the changed files of a phase
ChangedOf(phase) ==
    IF phase = "indexing" THEN run.tsDiff.changed ELSE run.pluginDiff.changed
\* the build has ended, with a snapshot or with an error
BuildEnded == run.pc = "idle" /\ run.result \in {"ok", "error"}

NativeRouted == {f[2] : f \in Range(run.tsFiles)}
\* the files the plugin buckets of the running (or last) build hold: computeDiff
\* got them all and put each in changed or unchanged
PluginRouted ==
    {f[2] : f \in Range(run.pluginDiff.changed) \cup Range(run.pluginDiff.unchanged)}
\* the files an extractor of kind k (0: native) ran on
ExtractedBy(native) ==
    {ev.file : ev \in {run.events[n] : n \in {n \in 1..Len(run.events) :
                  /\ run.events[n].e = "extract"
                  /\ (run.events[n].k = 0) = native}}}
\* a file under a vendor or build output directory, or a declaration file
UnderPattern(rel) ==
    \/ PathInfo[rel].under \in {"node_modules", ".next", "dist"}
    \/ PathInfo[rel].dts
\* a file under the output directory of the engine
UnderOutputDir(rel) == PathInfo[rel].under = ".armillary-mcp-docs"

\* C26: a file under a vendor directory, a build output directory or the engine's own
\* output directory, or a declaration-only file, is never put in a plugin bucket by
\* the File Router and never reaches native extraction, whatever extensions the
\* registered plugins claim.
C26_ExcludedNeverRouted ==
    \A rel \in TreePaths :
        (UnderPattern(rel) \/ UnderOutputDir(rel)) =>
            /\ rel \notin PluginRouted
            /\ rel \notin NativeRouted
            /\ rel \notin ExtractedBy(TRUE) \cup ExtractedBy(FALSE)

\* the same for the vendor and build output directories and the declaration files
C26_PatternExcludedNeverRouted ==
    \A rel \in TreePaths :
        UnderPattern(rel) =>
            /\ rel \notin PluginRouted
            /\ rel \notin NativeRouted
            /\ rel \notin ExtractedBy(TRUE) \cup ExtractedBy(FALSE)

\* a finished build over a tree that holds such files, some listed by the tsconfig
\* and some with an extension a plugin claims
C26_PatternWitness ==
    /\ BuildOk /\ Len(plugins) > 0
    /\ PluginRouted # {} /\ NativeRouted # {}
    /\ \E rel \in ListedPaths : UnderPattern(rel) /\ fs[rel] # NoFile
    /\ \E rel \in TreePaths \ ListedPaths :
          /\ UnderPattern(rel) /\ fs[rel] # NoFile
          /\ \E k \in 1..Len(plugins) :
                ExtName(Abs(rel)) \in {ToLowerCase(ext) : ext \in plugins[k].extensions}

\* two extensions that are equal when compared case-insensitively
SameExtension(a, b) ==
    \/ a = b
    \/ {a, b} = {".tsx", ".TSX"}
    \/ {a, b} = {".vue", ".VUE"}
\* a registered plugin claims the extension of the file
Claimed(rel) ==
    \E k \in 1..Len(plugins) : \E ext \in plugins[k].extensions :
        SameExtension(PathInfo[rel].ext, ext)
\* what the plugins that claim a file produce for it, in registration order
PluginProduced(rel) ==
    LET claiming == SelectSeq([k \in 1..Len(plugins) |-> k],
                       LAMBDA k : \E ext \in plugins[k].extensions :
                                     SameExtension(PathInfo[rel].ext, ext))
    IN Flat([n \in 1..Len(claiming) |->
               PluginSymbols(plugins[claiming[n]], Abs(rel), rel, fs[rel].content)])

\* C27: no file is handled by both extraction paths: a file whose extension, compared
\* case-insensitively, is claimed by a registered plugin is never passed to the
\* native Symbol Extractor, and its symbols enter the snapshot through the plugin
\* path only.
C27_ClaimedNeverNative ==
    \A rel \in TreePaths :
        Claimed(rel) =>
            /\ rel \notin NativeRouted
            /\ rel \notin ExtractedBy(TRUE)
            /\ (BuildOk /\ fs[rel] # NoFile /\ ~UnderPattern(rel)) =>
                  SymbolsOfFile(run.returned.symbols, rel) = SortById(PluginProduced(rel))

\* a finished build in which a file the tsconfig lists, whose extension differs in
\* case from the one a plugin claims, was extracted by that plugin, next to native
\* files
C27_Witness ==
    /\ BuildOk
    /\ \E rel \in ListedPaths :
          /\ Claimed(rel)
          /\ \A k \in 1..Len(plugins) : PathInfo[rel].ext \notin plugins[k].extensions
          /\ rel \in ExtractedBy(FALSE)
          /\ SymbolsOfFile(run.returned.symbols, rel) # <<>>
    /\ ExtractedBy(TRUE) # {}

\* the positions of the events of a kind in the log of the build
NativeExtractAt == {n \in 1..Len(run.events) : run.events[n].e = "extract" /\ run.events[n].k = 0}
PluginExtractAt == {n \in 1..Len(run.events) : run.events[n].e = "extract" /\ run.events[n].k > 0}
InitAt == {n \in 1..Len(run.events) : run.events[n].e = "init"}

\* C28: within one build every changed native file is extracted before any plugin is
\* initialized or any plugin-claimed file is processed; every plugin is initialized
\* before the first plugin-claimed file is processed; plugins process files in
\* registration order, and each plugin processes its files in sorted path order.
C28_StepOrder ==
    /\ \A a \in NativeExtractAt : \A b \in InitAt \cup PluginExtractAt : a < b
    /\ InitAt \cup PluginExtractAt # {} =>
          NativeExtracted = [n \in 1..Len(run.tsDiff.changed) |-> run.tsDiff.changed[n][2]]
    /\ \A b \in PluginExtractAt : \A k \in 1..Len(plugins) :
          \E a \in InitAt : a < b /\ run.events[a].k = k
    /\ \A a \in PluginExtractAt : \A b \in PluginExtractAt :
          a < b => \/ run.events[a].k < run.events[b].k
                   \/ /\ run.events[a].k = run.events[b].k
                      /\ run.events[a].file < run.events[b].file

\* a finished build with several native files and two plugins, the second of which
\* processed several files, one of them a path that sorts before a file of the first
C28_Witness ==
    /\ BuildOk /\ Len(plugins) = 2
    /\ Cardinality(NativeExtractAt) >= 2
    /\ \E a \in PluginExtractAt : \E b \in PluginExtractAt :
          a < b /\ run.events[a].k < run.events[b].k
                /\ run.events[a].file > run.events[b].file
    /\ \E a \in PluginExtractAt : \E b \in PluginExtractAt :
          a < b /\ run.events[a].k = run.events[b].k

\* the extractions of a phase as positions in the log, in order
ExtractSeq(phase) ==
    SeqOfSet(IF phase = "indexing" THEN NativeExtractAt ELSE PluginExtractAt)
\* the dispose, createFreshProject and init calls between two positions of the log
Between(a, b) ==
    SelectSeq(SubSeq(run.events, a + 1, b - 1),
              LAMBDA ev : ev.e \in {"dispose", "fresh", "init"})
\* the extraction at position x of the log uses a context no earlier one used
FreshContext(x) ==
    \A n \in 1..(x - 1) :
        run.events[n].e = "extract" => run.events[n].project # run.events[x].project

\* C29: no extraction context is used for more than batchSize consecutive changed-file
\* extractions: in the native phase a fresh context replaces the old one before the
\* changed file at every index i > 0 with i mod batchSize = 0, and in the plugin
\* phase, at every such boundary, every initialized plugin is disposed and then
\* initialized again with a fresh context before the next file is processed.
C29_BatchBound ==
    run.batchSize > 0 =>
        /\ \A p \in 1..run.projects :
              Cardinality({n \in NativeExtractAt \cup PluginExtractAt :
                              run.events[n].project = p}) <= run.batchSize
        /\ LET X == ExtractSeq("indexing")
           IN \A i \in 1..(Len(X) - 1) :
                 i % run.batchSize = 0 =>
                    /\ FreshContext(X[i + 1])
                    /\ Between(X[i], X[i + 1])
                          = <<Ev("fresh", 0, 0, 0, 0, run.events[X[i + 1]].project)>>
        /\ LET X == ExtractSeq("plugins")
               all == [k \in 1..Len(plugins) |-> k]
           IN \A i \in 1..(Len(X) - 1) :
                 i % run.batchSize = 0 =>
                    /\ FreshContext(X[i + 1])
                    /\ Between(X[i], X[i + 1])
                          = [k \in 1..Len(plugins) |-> Ev("dispose", k, 0, 0, 0, 0)]
                            \o <<Ev("fresh", 0, 0, 0, 0, run.events[X[i + 1]].project)>>
                            \o [k \in 1..Len(plugins) |->
                                  Ev("init", k, 0, 0, 0, run.events[X[i + 1]].project)]

\* a finished build with batchSize 2 that extracted three files in each phase: the
\* third of each in a fresh context
C29_Witness ==
    /\ BuildOk /\ run.batchSize = 2
    /\ Len(ExtractSeq("indexing")) = 3 /\ Len(ExtractSeq("plugins")) = 3
    /\ \A phase \in Phases :
          /\ run.events[ExtractSeq(phase)[1]].project = run.events[ExtractSeq(phase)[2]].project
          /\ run.events[ExtractSeq(phase)[2]].project # run.events[ExtractSeq(phase)[3]].project

\* a finished build with batchSize 1 and two plugins, disposed and initialized again
\* between their files
C29_WitnessEveryFile ==
    /\ BuildOk /\ run.batchSize = 1 /\ Len(plugins) = 2
    /\ Len(ExtractSeq("plugins")) > 2

(***************************************************************************)
(* computeDiff in batches: properties                                      *)
(***************************************************************************)
\* the cached files of a call, in the order of currentFiles, and the others
Cached(r) ==
    SelectSeq(r.currentFiles, LAMBDA f : r.cache # NoCache /\ f[2] \in DOMAIN r.cache.files)
Uncached(r) ==
    SelectSeq(r.currentFiles, LAMBDA f : r.cache = NoCache \/ f[2] \notin DOMAIN r.cache.files)

RECURSIVE OneAtATime(_, _, _, _)
\* the files checked one after the other against their entries, each result merged
\* before the next file is looked at
OneAtATime(files, entries, disk, acc) ==
    IF acc = Throws \/ files = <<>> THEN acc
    ELSE LET f == Head(files)
             cached == entries[f[2]]
             stat == disk[f[2]]
             fast == cached.mtimeMs # NoMtime /\ stat.mtimeMs = cached.mtimeMs
             hash == <<"sha256", stat.content>>
             match == fast \/ hash = cached.contentHash
         IN OneAtATime(Tail(files), entries, disk,
              IF stat = NoFile THEN Throws
              ELSE [changed |-> IF match THEN acc.changed ELSE Append(acc.changed, f),
                    unchanged |-> IF match THEN Append(acc.unchanged, f) ELSE acc.unchanged,
                    deleted |-> acc.deleted,
                    hashes |-> IF fast THEN acc.hashes
                               ELSE [x \in DOMAIN acc.hashes \cup {f} |->
                                       IF x = f THEN hash ELSE acc.hashes[x]],
                    mtimes |-> [x \in DOMAIN acc.mtimes \cup {f} |->
                                  IF x = f THEN stat.mtimeMs ELSE acc.mtimes[x]]])

\* what the call gives when its files are checked one at a time
Sequentially(r, disk) ==
    IF r.cache = NoCache
    THEN [changed |-> r.currentFiles, deleted |-> {}, unchanged |-> <<>>,
          hashes |-> <<>>, mtimes |-> <<>>]
    ELSE OneAtATime(Cached(r), r.cache.files, disk,
                    [changed |-> Uncached(r),
                     deleted |-> (DOMAIN r.cache.files) \ {f[2] : f \in Range(r.currentFiles)},
                     unchanged |-> <<>>, hashes |-> <<>>, mtimes |-> <<>>])

\* the cached files whose results are merged
Merged(r) == Len(r.changed) - Len(Uncached(r)) + Len(r.unchanged)

\* C30: during computeDiff at most BATCH_CONCURRENCY (32) stat/hash operations are
\* in flight at once; the operations in flight all belong to one batch, the next
\* BATCH_CONCURRENCY cached files after those already merged, and no file of a later
\* batch is merged or started while one of them is in flight; the result of the
\* call, its rejection included, is that of checking the files one at a time
C30_BatchedDiff ==
    diffRun.pc # "none" =>
        /\ diffRun.pendingOps <= BATCH_CONCURRENCY
        /\ diffRun.pendingOps <= Len(diffRun.batch)
        /\ diffRun.pc = "await" =>
              /\ Merged(diffRun) = diffRun.i
              /\ DOMAIN diffRun.mtimes = Range(SubSeq(Cached(diffRun), 1, diffRun.i))
              /\ Len(diffRun.batch) <= BATCH_CONCURRENCY
              /\ diffRun.batch =
                   [k \in 1..Len(diffRun.batch) |-> Cached(diffRun)[diffRun.i + k]]
              /\ \/ diffRun.i + Len(diffRun.batch) = Len(Cached(diffRun))
                 \/ Len(diffRun.batch) = BATCH_CONCURRENCY
        /\ diffRun.pendingOps > 0 => diffRun.pc \in {"await", "rejected"}
        /\ diffRun.pc = "slice" => Merged(diffRun) = diffRun.i
        /\ diffRun.pc = "done" => diffRun.result = Sequentially(diffRun, fs)
        /\ diffRun.pc = "rejected" => Sequentially(diffRun, fs) = Throws
        /\ Sequentially(diffRun, fs) = Throws => diffRun.pc # "done"

\* a call over more than one batch of cached files has returned: a file of the
\* first batch and one of the second were found edited, one was hashed and found
\* unchanged, a file without an entry came first
C30_Witness ==
    /\ diffRun.pc = "done"
    /\ Len(Cached(diffRun)) > BATCH_CONCURRENCY
    /\ diffRun.i = 2 * BATCH_CONCURRENCY
    /\ diffRun.result.changed =
         <<Abs(Len(Cached(diffRun)) + 1), Abs(1), Abs(BATCH_CONCURRENCY + 1)>>
    /\ Abs(BATCH_CONCURRENCY) \in DOMAIN diffRun.result.hashes
    /\ Abs(BATCH_CONCURRENCY) \in Range(diffRun.result.unchanged)

\* a full batch is in flight with nothing of it settled yet while a second batch
\* waits
C30_WitnessInFlight ==
    /\ diffRun.pc = "await"
    /\ diffRun.i = 0
    /\ diffRun.pendingOps = BATCH_CONCURRENCY
    /\ Len(Cached(diffRun)) > BATCH_CONCURRENCY

(***************************************************************************)
(* Build Controller: state invariants                                      *)
(***************************************************************************)
\* a runBuild activation has invoked buildFn and has not yet come to the end of
\* its completion check
BuildFnPending == inFlight + awaiting > 0

\* the state goes to build_queued from another state
EntersQueued == state # "build_queued" /\ state' = "build_queued"

\* C31: in every reachable state of the Build Controller a debounce timer is
\* pending only when the state is idle (so getState reports idle throughout the
\* debounce window); the state is building or build_queued exactly while a buildFn
\* invocation is in flight, that is invoked by a runBuild that has not yet made its
\* completion check for it; and build_queued is entered only from building
C31_StateInvariant ==
    /\ [](debounceTimer # NoTimer => state = "idle")
    /\ [](state \in {"idle", "building", "build_queued"})
    /\ [](state \in {"building", "build_queued"} <=> BuildFnPending)
    /\ [](inFlight > 0 => state # "idle")
    /\ [][EntersQueued => state = "building"]_vars

\* a debounce window is open in idle after a timer-started build, the build queued
\* behind it and the completion check of that one have all run
C31_Witness ==
    /\ state = "idle"
    /\ debounceTimer > 0
    /\ startedBy = "queue"
    /\ lastOutcome = "ok"
    /\ inFlight = 0
    /\ awaiting = 0

(***************************************************************************)
(* Watch mode: specification                                               *)
(***************************************************************************)
\* the files of the watched project whose state changes, and the states they take
WatchPaths == {2, 3}
FileStates == {NoFile} \cup [content : Contents, mtimeMs : Mtimes]
\* the plugin lists of the watched project
WatchPluginLists == {<<>>, <<PluginA>>}

\* watchAndRegenerate has returned its handle (watcher.ts:148-189): the initial
\* build has written index.json and cache.json for a project of a .ts and a .vue
\* file, the watcher is ready, the controller is idle
InitWatch ==
    /\ InitCtl
    /\ diffRun = NoDiffRun
    /\ watch = [NoWatcher EXCEPT !.status = "open"]
    /\ fs = [rel \in TreePaths |->
               IF rel \in {1, 3} THEN [content |-> 1, mtimeMs |-> 1] ELSE NoFile]
    /\ tsConfig = 1
    /\ plugins \in WatchPluginLists
    /\ cacheFile = InitialManifest(fs, tsConfig, plugins)
    /\ indexFile = [version |-> indexVersion, generatedAt |-> 0,
                    projectRoot |-> ProjectRoot, symbols |-> FullRebuild(fs, plugins)]
    /\ run = IdleRun
    /\ prev = [result |-> "none", returned |-> NoFile, editsAtBegin |-> 0,
               incremental |-> FALSE]
    /\ builds = 0
    /\ edits = 0

NextWatch ==
    \/ \E rel \in WatchPaths, new \in FileStates : SourceChange(rel, new)
    \/ ConfigChange
    \/ WatcherEvent
    \/ WatchTick
    \/ WatchTimerFire
    \/ WatchBuildStep
    \/ WatchWriteDone
    \/ WatchBuildContinue
    \/ CloseBegin
    \/ CloseWaitForIdle

SpecWatch == InitWatch /\ [][NextWatch]_vars

\* the watcher reports what it saw, time passes, a due timer fires, a running build
\* goes on to its end, a resumed runBuild runs, a close() under way goes on
FairWatch ==
    /\ WF_vars(WatcherEvent)
    /\ WF_vars(WatchTick)
    /\ WF_vars(WatchTimerFire)
    /\ WF_vars(WatchBuildStep)
    /\ WF_vars(WatchWriteDone)
    /\ WF_vars(WatchBuildContinue)
    /\ WF_vars(CloseWaitForIdle)

LiveWatch == SpecWatch /\ FairWatch

\* the first incremental build of an untouched project with at most one plugin
\* writes the manifest and the snapshot the watched project starts with
InitialBuildWrites ==
    (/\ BuildOk
     /\ run.incremental
     /\ run.cacheAtBegin = NoFile
     /\ builds = 1
     /\ edits = run.editsAtBegin
     /\ Len(plugins) <= 1)
    => /\ cacheFile = InitialManifest(fs, tsConfig, plugins)
       /\ indexFile.symbols = FullRebuild(fs, plugins)

(***************************************************************************)
(* Watch mode: properties                                                  *)
(***************************************************************************)
\* the changes have stopped and were all reported, no build is running or due, and
\* the last build did not fail
Quiescent ==
    /\ watch.status = "open"
    /\ watch.pendingEvents = 0
    /\ state = "idle"
    /\ debounceTimer = NoTimer
    /\ inFlight = 0
    /\ awaiting = 0
    /\ lastOutcome # "fail"

\* every entry of the cache file carries the hash of its file's current content
CacheHashesCurrent ==
    \A rel \in DOMAIN cacheFile.files :
        fs[rel] # NoFile => cacheFile.files[rel].contentHash = HashFileContents(fs, Abs(rel))

\* C32: in watch mode, once the file changes have stopped and the controller is
\* idle with no pending timer, the published snapshot holds for every current
\* project file the symbols extracted from its current content, and no others
C32_NoStaleSymbols ==
    Quiescent => indexFile.symbols = FullRebuild(fs, plugins)

\* the same for the states in which every cached hash is that of the current
\* content: what is stale there was extracted from a content read before the hash
C32_NoStaleSymbolsBehindCurrentHash ==
    (Quiescent /\ CacheHashesCurrent) => indexFile.symbols = FullRebuild(fs, plugins)

\* the follow-up build of a change that landed during a build has run and the
\* controller has come to rest with every change reported
C32_FollowUpRan ==
    /\ Quiescent
    /\ startedBy = "queue"
    /\ builds = 2
    /\ edits = 2

(***************************************************************************)
(* Plugin lifecycle across batch boundaries: properties                    *)
(***************************************************************************)
\* the init calls that returned and the dispose calls made on plugin k among the
\* first n events of the build
InitsOf(k, n) ==
    Cardinality({x \in 1..n : run.events[x].e = "init" /\ run.events[x].k = k})
DisposesOf(k, n) ==
    Cardinality({x \in 1..n : run.events[x].e = "dispose" /\ run.events[x].k = k})

\* C33: for every plugin within one build the init and dispose calls alternate,
\* starting with an init that succeeded: at no moment was dispose called more
\* often than init had succeeded, nor init twice without a dispose between
C33_InitDisposeAlternate ==
    \A k \in 1..Len(plugins), n \in 0..Len(run.events) :
        /\ DisposesOf(k, n) <= InitsOf(k, n)
        /\ InitsOf(k, n) <= DisposesOf(k, n) + 1

\* the same for the builds in which nothing throws at a batch boundary
C33_AlternateUnlessBoundaryThrows ==
    run.threw \notin {"boundaryDispose", "boundaryInit"} =>
        \A k \in 1..Len(plugins), n \in 0..Len(run.events) :
            /\ DisposesOf(k, n) <= InitsOf(k, n)
            /\ InitsOf(k, n) <= DisposesOf(k, n) + 1

\* a build with two plugins has gone through a batch boundary and ended
C33_BoundaryPassed ==
    /\ BuildOk
    /\ Len(plugins) = 2
    /\ \A k \in 1..2 : InitsOf(k, Len(run.events)) = 2
                       /\ DisposesOf(k, Len(run.events)) = 2

(***************************************************************************)
(* Snapshot against cache manifest: properties                             *)
(***************************************************************************)
\* the symbols of the entries of a manifest, entry after entry
ManifestSymbols(manifest) ==
    LET rels == SeqOfSet(DOMAIN manifest.files)
    IN Flat([k \in 1..Len(rels) |-> manifest.files[rels[k]].symbols])

\* two sequences hold the same elements, each as often in one as in the other
SameMultiset(a, b) ==
    \A x \in Range(a) \cup Range(b) : Count(a, x) = Count(b, x)

\* an incremental build has succeeded; index.json and cache.json are those it wrote
IncrementalBuildOk == BuildOk /\ run.incremental

\* C34: after every successful incremental build the multiset of the symbols of the
\* written snapshot equals the union of the symbols arrays of the file entries of
\* the written manifest, for every plugin list, also when several plugins claim the
\* same file
C34_SnapshotEqualsManifest ==
    IncrementalBuildOk => SameMultiset(indexFile.symbols, ManifestSymbols(cacheFile))

\* the same, for plugin lists in which no two plugins claim the same extension
C34_SnapshotEqualsManifestNoSharedExtension ==
    (IncrementalBuildOk /\ Len(plugins) <= 1)
        => SameMultiset(indexFile.symbols, ManifestSymbols(cacheFile))

\* the first build for two plugins that claim the same file: both plugins' symbols
\* are in the snapshot and in the one merged entry
C34_MergedEntryReached ==
    /\ IncrementalBuildOk
    /\ Len(plugins) = 2
    /\ builds = 1
    /\ Len(indexFile.symbols) > 0
    /\ SameMultiset(indexFile.symbols, ManifestSymbols(cacheFile))

(***************************************************************************)
(* The watch handle: controller, watcher and observers around an opaque    *)
(* generateDocIndex                                                        *)
(***************************************************************************)
\* the directories options.outputPath lies in: the default one, and one of the
\* caller's choice inside the project
OutputDirs == {".armillary-mcp-docs", "docs"}
\* the plugin lists of the handle
HandlePluginLists == {<<>>, <<PluginJ>>}
\* the files that change while the handle is open: a source file and the tsconfig
ChangedFiles == {PathInfo[1], ConfigFileInfo}

\* watchAndRegenerate has returned its handle: the initial build is over, the
\* watcher is ready, the controller is idle
InitHandle ==
    /\ InitCtl
    /\ diffRun = NoDiffRun
    /\ \E dir \in OutputDirs : watch = [NoWatcher EXCEPT !.status = "open", !.outputDir = dir]
    /\ fs = [rel \in TreePaths |->
               IF rel \in AllPaths THEN [content |-> 1, mtimeMs |-> 1] ELSE NoFile]
    /\ InitProject(HandlePluginLists, {NoFile})

\* a file is created, written or removed; what it holds plays no part here
HandleChange(info) ==
    /\ edits < MaxChanges
    /\ edits' = edits + 1
    /\ watch' = Seen(watch, info)
    /\ UNCHANGED <<fs, tsConfig, cacheFile, indexFile, plugins, run, prev, builds>>
    /\ UNCHANGED <<ctlVars, diffRun>>

\* the timeout callback: runBuild invokes buildFn, whose onBuildStart returns or
\* throws
HandleTimerFire ==
    /\ TimerFire
    /\ \E throws \in BOOLEAN : watch' = Invoked(watch, throws)
    /\ UNCHANGED <<buildVars, diffRun>>

\* runBuild after its await: the queued build is started, or the controller goes idle
HandleBuildContinue ==
    /\ BuildContinue
    /\ IF RebuildNow(state)
       THEN \E throws \in BOOLEAN : watch' = Invoked(watch, throws)
       ELSE UNCHANGED watch
    /\ UNCHANGED <<buildVars, diffRun>>

\* watcher.ts:153: onBuildStart has thrown outside the try block; the promise of
\* buildFn is rejected with no further observer called
HandleStartRejects ==
    /\ watch.rejected
    /\ PromiseSettles("fail")
    /\ UNCHANGED <<cb, watch, buildVars, diffRun>>

\* watcher.ts:154-160: generateDocIndex returns, having written index.json and
\* cache.json, or rejects; the observer buildFn then calls returns or throws. An
\* onBuildComplete that throws does so inside the try block, so onBuildError is
\* called as well and the promise is rejected
HandleBuildReturns(result, throws) ==
    LET cbs == IF result = "ok" /\ throws THEN <<"complete", "error">>
               ELSE <<ObserverOf(result)>>
        seen == IF result = "ok" THEN Seen(watch, OutputFileInfo(watch.outputDir))
                ELSE watch
    IN /\ ~watch.rejected
       /\ BuildSettle(IF result = "ok" /\ ~throws THEN "ok" ELSE "fail")
       /\ watch' = Called(seen, cbs)
       /\ UNCHANGED <<buildVars, diffRun>>

NextHandle ==
    \/ \E info \in ChangedFiles : HandleChange(info)
    \/ WatcherEvent
    \/ WatchTick
    \/ HandleTimerFire
    \/ HandleStartRejects
    \/ \E result \in {"ok", "fail"}, throws \in BOOLEAN : HandleBuildReturns(result, throws)
    \/ HandleBuildContinue
    \/ CloseBegin
    \/ CloseWaitForIdle

SpecHandle == InitHandle /\ [][NextHandle]_vars

\* the watcher reports what it saw, time passes, a due timer fires, a running build
\* ends, a resumed runBuild runs, a close() under way goes on
FairHandle ==
    /\ WF_vars(WatcherEvent)
    /\ WF_vars(WatchTick)
    /\ WF_vars(HandleTimerFire)
    /\ WF_vars(HandleStartRejects)
    /\ WF_vars(\E result \in {"ok", "fail"}, throws \in BOOLEAN :
                  HandleBuildReturns(result, throws))
    /\ WF_vars(HandleBuildContinue)
    /\ WF_vars(CloseWaitForIdle)

LiveHandle == SpecHandle /\ FairHandle

(***************************************************************************)
(* Watch mode: the observers                                               *)
(***************************************************************************)
\* what buildFn has called since it was last invoked is onBuildStart alone while
\* generateDocIndex runs, and onBuildStart followed by one of onBuildComplete and
\* onBuildError once its promise has settled
OneOutcomePerStart ==
    /\ watch.callbacks \in {<<>>, <<"start">>, <<"start", "complete">>, <<"start", "error">>}
    /\ inFlight > 0 => watch.callbacks = <<"start">>
    /\ (inFlight = 0 /\ watch.callbacks # <<>>) => Len(watch.callbacks) = 2

\* as OneOutcomePerStart, for observers that return normally
OneOutcomePerStartUnlessThrown ==
    (~watch.rejected /\ watch.callbacks # <<"start", "complete", "error">>)
    => OneOutcomePerStart

\* C35: in watch mode every build the controller runs calls onBuildStart first and
\* then exactly one of onBuildComplete and onBuildError, and onBuildStart is not
\* called again before that one was called
C35_CallbackOrder == OneOutcomePerStart

\* a build whose onBuildComplete threw: its promise has settled after three calls
C35_ThrowingObserverReached ==
    /\ inFlight = 0
    /\ watch.callbacks = <<"start", "complete", "error">>

(***************************************************************************)
(* Watch mode: the build's own writes                                      *)
(***************************************************************************)
\* the watcher gets a change to report
Reported == watch'.pendingEvents > watch.pendingEvents

\* a file other than index.json and cache.json changes
SourceChanged == edits' = edits + 1

\* no build is running, due or queued
AtRest ==
    /\ state = "idle"
    /\ debounceTimer = NoTimer
    /\ inFlight = 0
    /\ awaiting = 0

\* the writes of a build reach the watcher: the output path was put in a directory
\* that is not ignored and a plugin claims .json
OutputWatched ==
    ~ShouldIgnore(OutputFileInfo(watch.outputDir), PluginExtensions(plugins))

\* C36: the writes a build makes to index.json and cache.json are never reported
\* by the watcher, so scheduleRebuild is called for source changes only, and once
\* the source changes have stopped the controller comes to rest for good
C36_OwnWritesIgnored ==
    /\ [][Reported => SourceChanged]_vars
    /\ [](calls <= edits)
    /\ <>[]AtRest

\* as C36, for an output path the watcher ignores
C36_OwnWritesIgnoredInIgnoredDir ==
    /\ [][~OutputWatched /\ Reported => SourceChanged]_vars
    /\ [](~OutputWatched => calls <= edits)
    /\ <>[]AtRest

\* a build written to a watched output directory has caused a scheduleRebuild call
C36_SelfTriggered ==
    /\ OutputWatched
    /\ calls > edits
    /\ lastOutcome = "ok"

(***************************************************************************)
(* The configuration fingerprint of a written manifest                     *)
(***************************************************************************)
\* an incremental build has returned and cache.json holds the manifest it wrote
ManifestWritten ==
    /\ BuildOk
    /\ run.incremental
    /\ cacheFile = run.manifest

\* the tsconfig was rewritten after the build had parsed it
ConfigChangedSinceParse == tsConfig # run.configAtBegin

\* C37: the tsConfigHash of the manifest an incremental build writes is the hash of
\* the tsconfig content the build parsed for its file list and compiler options,
\* also when the tsconfig is rewritten while the build runs
C37_FingerprintOfParsedConfig ==
    ManifestWritten => cacheFile.tsConfigHash = HashContent(run.configAtBegin)

\* as C37, for the builds that loaded a manifest or ran with the tsconfig untouched
C37_FingerprintUnlessHashedAtEnd ==
    (ManifestWritten /\ (run.tsConfigHash # NoHash \/ ~ConfigChangedSinceParse))
    => cacheFile.tsConfigHash = HashContent(run.configAtBegin)

\* a build that loaded no manifest has written one after the tsconfig was rewritten
\* under it
C37_ConfigRewrittenReached ==
    /\ ManifestWritten
    /\ run.tsConfigHash = NoHash
    /\ ConfigChangedSinceParse

(***************************************************************************)
(* Plugin registration order                                               *)
(***************************************************************************)
\* the plugin lists a caller registers: two plugins of different extensions in
\* either order, each of them alone, and none
OrderPluginLists == {<<>>, <<PluginA>>, <<PluginT>>, <<PluginA, PluginT>>, <<PluginT, PluginA>>}

\* the caller passes another plugin list to the next generateDocIndex
Reregister(ps) ==
    /\ run.pc = "idle"
    /\ edits < MaxEdits
    /\ ps # plugins
    /\ plugins' = ps
    /\ edits' = edits + 1
    /\ UNCHANGED <<fs, tsConfig, cacheFile, indexFile, run, prev, builds>>

InitOrder ==
    /\ InitCtl
    /\ InitFiles(OrderPluginLists, {NoFile})

\* generateDocIndex run after run, the plugin list changing between the runs and
\* nothing else
NextOrder ==
    \/ \E incremental \in BOOLEAN : BuildBegin(incremental) /\ UNCHANGED <<ctlVars, diffRun, watch>>
    \/ DiffNative /\ UNCHANGED <<ctlVars, diffRun, watch>>
    \/ ExtractNative /\ UNCHANGED <<ctlVars, diffRun, watch>>
    \/ StoreNative /\ UNCHANGED <<ctlVars, diffRun, watch>>
    \/ PluginBegin /\ UNCHANGED <<ctlVars, diffRun, watch>>
    \/ ExtractPlugin /\ UNCHANGED <<ctlVars, diffRun, watch>>
    \/ StorePlugin /\ UNCHANGED <<ctlVars, diffRun, watch>>
    \/ Finish /\ UNCHANGED <<ctlVars, diffRun, watch>>
    \/ WriteDone /\ UNCHANGED <<ctlVars, diffRun, watch>>
    \/ \E ps \in OrderPluginLists : Reregister(ps) /\ UNCHANGED <<ctlVars, diffRun, watch>>

SpecOrder == InitOrder /\ [][NextOrder]_vars

\* the names of a plugin list, whatever their order
NamesOf(ps) == {ps[k].name : k \in 1..Len(ps)}

\* an incremental build is running that found at its start the cache.json the
\* incremental build before it wrote
RunsOnWrittenManifest ==
    /\ run.pc # "idle"
    /\ run.incremental
    /\ prev.incremental
    /\ prev.result = "ok"

\* C38: the manifest a build wrote is loaded by the next build, all else unchanged,
\* exactly when the names of the next build's plugins are those of the build that
\* wrote it, in whatever order the plugins are registered
C38_OrderIndependent ==
    RunsOnWrittenManifest
    => IF NamesOf(plugins) = Range(run.cacheAtBegin.pluginNames)
       THEN run.cache = run.cacheAtBegin
       ELSE run.cache = NoCache

\* the second build runs with the two plugins of the first in the other order and
\* has loaded the manifest
C38_Witness ==
    /\ RunsOnWrittenManifest
    /\ prev.editsAtBegin = 0
    /\ run.editsAtBegin = 1
    /\ Len(plugins) = 2
    /\ NamesOf(plugins) = Range(run.cacheAtBegin.pluginNames)
    /\ run.cache = run.cacheAtBegin

\* the second build runs with another set of plugin names and has loaded nothing
C38_WitnessRejected ==
    /\ RunsOnWrittenManifest
    /\ NamesOf(plugins) # Range(run.cacheAtBegin.pluginNames)
    /\ run.cache = NoCache

(***************************************************************************)
(* WatcherHandle.close                                                     *)
(***************************************************************************)
\* close() has called waitForIdle, as its first waiter
CloseAwaitsIdle == promise[1] # "none"

\* the promise of close() is resolved
CloseResolved == promise[1] \in {"immediate", "resolved"}

\* C39: close() calls waitForIdle only when the watcher is closed, and its promise
\* is resolved only when no debounce timer is pending, no scheduleRebuild call is
\* still unanswered and no build is in flight or queued: the controller is idle
\* then, and afterwards scheduleRebuild is not called and no build starts; a
\* close() under way is resolved in the end
C39_CloseWaitsForBuilds ==
    /\ [](CloseAwaitsIdle => watch.status = "closed")
    /\ [](CloseResolved => AtRest /\ ~pendingCall)
    /\ [][CloseResolved => calls' = calls /\ inFlight' = inFlight]_vars
    /\ (watch.status = "closing" ~> CloseResolved)

\* close() was called during a build behind which another was queued; its promise
\* stayed pending until the queued build had ended, here by failing
C39_Witness ==
    /\ watch.status = "closed"
    /\ promise[1] = "resolved"
    /\ startedBy = "queue"
    /\ lastOutcome = "fail"
    /\ AtRest

\* close() waits on a debounce timer that has not fired yet
C39_WitnessTimerPending ==
    /\ watch.status = "closed"
    /\ promise[1] = "pending"
    /\ debounceTimer > 0

\* close() waits on a build behind which another is queued
C39_WitnessQueued ==
    /\ watch.status = "closed"
    /\ promise[1] = "pending"
    /\ state = "build_queued"
====
